---- MODULE Spec2Model ----
(***************************************************************************)
(* Event-to-storm linkage of GewitterGefahr (gg_utils/linkage.py).         *)
(*                                                                         *)
(* Units.  One time unit is one radar time step of the storm-tracking      *)
(* table; one distance unit is one cell of an integer grid.  Secondary IDs *)
(* are the integers 1..MaxCells and None is 0.  Linkage distances are      *)
(* kept as squared Euclidean distances (the code takes the square root of  *)
(* the same sum, and every comparison it makes is preserved by squaring);  *)
(* NaN is -1.                                                              *)
(***************************************************************************)
EXTENDS Integers, Sequences, FiniteSets, TLC

VARIABLES
    storm_object_table,      \* lineage: rows of the storm-object table, both periods
    num_early_storm_objects, \* lineage: rows 1..n are the early period
    event_type_string,       \* lineage: "wind" or "tornado"
    event_to_storm_table,    \* lineage: <<early events, late events>>
    storm_to_events_table,   \* lineage: per storm object, the linkage columns
    linkage_columns,         \* lineage: module-level WIND_/TORNADO_LINKAGE_COLUMNS
    reversed_periods,        \* lineage: periods whose linkages have been reversed
    num_share_calls,         \* lineage: calls of _share_linkages_with_predecessors
    share_raised,            \* lineage: the latest of these calls raised ValueError
    interp_vertex_table,     \* matcher: rows <<secondary ID, vertex x, vertex y>>
    event_x_coords,          \* matcher: x-coordinates of the events
    event_y_coords,          \* matcher: y-coordinates of the events
    max_link_distance,       \* matcher: max_link_distance_metres
    nearest_secondary_ids,   \* matcher: result, None where no storm was linked
    linkage_distances,       \* matcher: result (squared), NaN where not linked
    matcher_done,            \* matcher: _find_nearest_storms_one_time has returned
    early_tornado_to_storm_table,  \* removal: rows of the early period
    late_tornado_to_storm_table,   \* removal: rows of the late period
    tables_on_entry,         \* removal: <<early, late>> as passed to the latest call
    removal_raised,          \* removal: the latest call raised ValueError
    num_removal_calls,       \* removal: calls of _remove_redundant_tornado_linkages
    storm_object_table_xy,   \* linking: storm objects with centroids and outlines
    event_table,             \* linking: the event table _find_nearest_storms fills
    linking_args,            \* linking: the other arguments of _find_nearest_storms
    linking_pc,              \* linking: "first_pass", "second_pass", "returned" or "raised"
    linking_i,               \* linking: index of the next unique interpolation time
    linking_calls,           \* linking: calls made by the latest iteration of a loop
    finished_tornado_ids,    \* linking: tornadoes handed to _finish_tornado_linkage so far
    interp_storm_object_table,  \* interpolation: storm objects with outlines
    interp_args,             \* interpolation: the other arguments of the latest call
    interp_result,           \* interpolation: vertex table returned by the latest call
    interp_pc,               \* interpolation: "ready", or the function that has returned
    linkage_file,  \* file: objects pickled into the linkage file, <<>> if there is no file
    written_values,  \* file: arguments of the latest call of write_linkage_file
    read_values,  \* file: values returned by the latest call of read_linkage_file
    file_pc, \* file: "ready", or the function that has returned or raised
    period_storm_tables,  \* projection: storm objects of each period, in latitude and longitude
    period_tornado_tables,  \* projection: tornado track segments of each period, in latitude and longitude
    linkage_runs,  \* projection: what link_storms_to_tornadoes returned for each period
    shared_tables,  \* projection: what _share_tornado_linkages returned
    compared_origins,  \* projection: origins of the projections behind the values of each comparison made
    projection_pc, \* projection: "linking", "shared" or "raised"
    num_spc_dates,  \* stitch: SPC dates from the first to the last
    top_dir_names_equal,  \* stitch: top_input_dir_name = top_output_dir_name
    old_linkage_files,  \* stitch: for each date, the objects in the input file
    new_linkage_files,  \* stitch: for each date, the calls of write_linkage_file on its output file
    storm_to_events_table_by_date,  \* stitch: share_linkages, <<>> for an empty DataFrame
    tornado_to_storm_table_by_date,  \* stitch: share_linkages, <<>> for an empty DataFrame
    read_metadata_dict,  \* stitch: metadata_dict of share_linkages, <<>> for None
    sharing_steps_done,  \* stitch: i for which the tables of dates i and i + 1 have been shared
    stitch_i,  \* stitch: date of the next loop iteration of share_linkages
    stitch_pc  \* stitch: "loop", the function about to be called, "returned", or the function that raised

lineage_vars == <<storm_object_table, num_early_storm_objects, event_type_string,
                  event_to_storm_table, storm_to_events_table, linkage_columns,
                  reversed_periods, num_share_calls, share_raised>>

matcher_vars == <<interp_vertex_table, event_x_coords, event_y_coords,
                  max_link_distance, nearest_secondary_ids, linkage_distances,
                  matcher_done>>

redundant_vars == <<early_tornado_to_storm_table, late_tornado_to_storm_table,
                    tables_on_entry, removal_raised, num_removal_calls>>

linking_vars == <<storm_object_table_xy, event_table, linking_args, linking_pc, linking_i,
                  linking_calls, finished_tornado_ids>>

interp_vars == <<interp_storm_object_table, interp_args, interp_result, interp_pc>>

file_vars == <<linkage_file, written_values, read_values, file_pc>>

projection_vars == <<period_storm_tables, period_tornado_tables, linkage_runs, shared_tables, compared_origins, projection_pc>>

stitch_vars == <<num_spc_dates, top_dir_names_equal, old_linkage_files, new_linkage_files, storm_to_events_table_by_date, tornado_to_storm_table_by_date, read_metadata_dict, sharing_steps_done, stitch_i, stitch_pc>>

vars == <<lineage_vars, matcher_vars, redundant_vars, linking_vars, interp_vars, file_vars, projection_vars, stitch_vars>>

not_lineage_vars == <<matcher_vars, redundant_vars, linking_vars, interp_vars, file_vars, projection_vars, stitch_vars>>
not_matcher_vars == <<lineage_vars, redundant_vars, linking_vars, interp_vars, file_vars, projection_vars, stitch_vars>>
not_redundant_vars == <<lineage_vars, matcher_vars, linking_vars, interp_vars, file_vars, projection_vars, stitch_vars>>
not_linking_vars == <<lineage_vars, matcher_vars, redundant_vars, interp_vars, file_vars, projection_vars, stitch_vars>>
not_interp_vars == <<lineage_vars, matcher_vars, redundant_vars, linking_vars, file_vars, projection_vars, stitch_vars>>
not_file_vars == <<lineage_vars, matcher_vars, redundant_vars, linking_vars, interp_vars, projection_vars, stitch_vars>>
not_projection_vars == <<lineage_vars, matcher_vars, redundant_vars, linking_vars, interp_vars, file_vars, stitch_vars>>
not_stitch_vars == <<lineage_vars, matcher_vars, redundant_vars, linking_vars, interp_vars, file_vars, projection_vars>>

\* Each specification exercises one part of the program; the variables of the
\* other parts stay at these values.
LineageIdle ==
    /\ storm_object_table = <<>>
    /\ num_early_storm_objects = 0
    /\ event_type_string = ""
    /\ event_to_storm_table = <<>>
    /\ storm_to_events_table = <<>>
    /\ linkage_columns = <<>>
    /\ reversed_periods = {}
    /\ num_share_calls = 0
    /\ share_raised = FALSE

MatcherIdle ==
    /\ interp_vertex_table = <<>>
    /\ event_x_coords = <<>>
    /\ event_y_coords = <<>>
    /\ max_link_distance = 0
    /\ nearest_secondary_ids = <<>>
    /\ linkage_distances = <<>>
    /\ matcher_done = FALSE

RedundantIdle ==
    /\ early_tornado_to_storm_table = <<>>
    /\ late_tornado_to_storm_table = <<>>
    /\ tables_on_entry = <<>>
    /\ removal_raised = FALSE
    /\ num_removal_calls = 0

LinkingIdle ==
    /\ storm_object_table_xy = <<>>
    /\ event_table = <<>>
    /\ linking_args = <<>>
    /\ linking_pc = ""
    /\ linking_i = 0
    /\ linking_calls = <<>>
    /\ finished_tornado_ids = {}

InterpIdle ==
    /\ interp_storm_object_table = <<>>
    /\ interp_args = <<>>
    /\ interp_result = <<>>
    /\ interp_pc = ""

FileIdle ==
    /\ linkage_file = <<>>
    /\ written_values = <<>>
    /\ read_values = <<>>
    /\ file_pc = ""

ProjectionIdle ==
    /\ period_storm_tables = <<>>
    /\ period_tornado_tables = <<>>
    /\ linkage_runs = <<>>
    /\ shared_tables = <<>>
    /\ compared_origins = {}
    /\ projection_pc = ""

StitchIdle ==
    /\ num_spc_dates = 0
    /\ top_dir_names_equal = FALSE
    /\ old_linkage_files = <<>>
    /\ new_linkage_files = <<>>
    /\ storm_to_events_table_by_date = <<>>
    /\ tornado_to_storm_table_by_date = <<>>
    /\ read_metadata_dict = <<>>
    /\ sharing_steps_done = {}
    /\ stitch_i = 0
    /\ stitch_pc = ""

\* ------------------------------------------------------------------ bounds
MaxCells == 3
ObjectsPerCell == 2
MaxEvents == 2
GridX == 6
GridY == 3
MaxLinkDistance == 2
MaxSegments == 2
MaxRemovalCalls == 2
BoundingBoxPadding == 4
OtherStormLongitude == 12
MaxTrackSegments == 3
MaxShareCalls == 2
MaxSpcDates == 3

\* --------------------------------------------------------------- constants
None == 0
NaN == -1

\* The default time windows (300 s), one radar time step.
DEFAULT_MAX_TIME_BEFORE_STORM_SEC == 1
DEFAULT_MAX_TIME_AFTER_STORM_SEC == 1

\* LARGE_DISTANCE_METRES, in grid units: farther than any two points of the grid.
\* Defaults of the distances kept in the metadata of a linkage file, in metres.
DEFAULT_BBOX_PADDING_METRES == 100000
DEFAULT_MAX_WIND_DISTANCE_METRES == 30000
DEFAULT_MAX_TORNADO_DISTANCE_METRES == 30000

LARGE_DISTANCE_METRES == 1000

\* The 1800 seconds by which _interp_storms_in_time widens the time window
\* when it first subsets the storm objects, in time units.
INTERP_SUBSET_SLACK == 6

TORNADOGENESIS_EVENT_STRING == "tornadogenesis"

\* Default of max_polygon_attempt_distance_metres (30000 m), in grid units.
DEFAULT_MAX_POLYGON_ATTEMPT_DISTANCE == 2

\* Values of storm_interp_time_interval_sec, in time units.
InterpTimeIntervals == {1, 2}

WIND_EVENT_STRING == "wind"
TORNADO_EVENT_STRING == "tornado"

LINKAGE_DISTANCES_COLUMN == "linkage_distances_metres"
RELATIVE_EVENT_TIMES_COLUMN == "relative_event_times_sec"
EVENT_LATITUDES_COLUMN == "event_latitudes_deg"
EVENT_LONGITUDES_COLUMN == "event_longitudes_deg"
MAIN_OBJECT_FLAGS_COLUMN == "main_object_flags"
MERGING_PRED_FLAG_COLUMN == "merging_predecessor_flag"
FUJITA_RATINGS_COLUMN == "f_or_ef_scale_ratings"
TORNADO_IDS_COLUMN == "tornado_id_strings"
WIND_STATION_IDS_COLUMN == "wind_station_ids"
U_WINDS_COLUMN == "u_winds_m_s01"
V_WINDS_COLUMN == "v_winds_m_s01"

THESE_COLUMNS ==
    <<LINKAGE_DISTANCES_COLUMN, RELATIVE_EVENT_TIMES_COLUMN,
      EVENT_LATITUDES_COLUMN, EVENT_LONGITUDES_COLUMN, MAIN_OBJECT_FLAGS_COLUMN,
      MERGING_PRED_FLAG_COLUMN>>

WIND_LINKAGE_COLUMNS ==
    THESE_COLUMNS \o <<WIND_STATION_IDS_COLUMN, U_WINDS_COLUMN, V_WINDS_COLUMN>>

TORNADO_LINKAGE_COLUMNS ==
    THESE_COLUMNS \o <<FUJITA_RATINGS_COLUMN, TORNADO_IDS_COLUMN>>

ANY_CHANGE_STRING == "any"
MERGER_STRING == "merger"
SPLIT_STRING == "split"

EARLY == 1
LATE == 2
Periods == {EARLY, LATE}

\* ----------------------------------------------------------------- helpers
Range(s) == {s[i] : i \in DOMAIN s}

SetMax(S) == CHOOSE x \in S : \A y \in S : y <= x

SetMin(S) == CHOOSE x \in S : \A y \in S : x <= y

Abs(x) == IF x < 0 THEN -x ELSE x

\* numpy.argmin over the rows in `rows` of key[r]: the first (lowest) row that
\* attains the minimum.
ArgMinRow(rows, key) ==
    CHOOSE r \in rows :
        /\ \A q \in rows : key[r] <= key[q]
        /\ \A q \in rows : key[q] = key[r] => r <= q

\* numpy.argmax: the first row that attains the maximum.
ArgMaxRow(rows, key) ==
    CHOOSE r \in rows :
        /\ \A q \in rows : key[q] <= key[r]
        /\ \A q \in rows : key[q] = key[r] => r <= q

\* number_rounding.round_to_nearest followed by numpy.round: the nearest
\* multiple of `base`, halves going to the even multiple.
RoundToNearest(x, base) ==
    LET q == x \div base
        r == x % base
    IN  IF 2 * r < base THEN base * q
        ELSE IF 2 * r > base THEN base * (q + 1)
        ELSE IF q % 2 = 0 THEN base * q ELSE base * (q + 1)

\* ------------------------------------------------------- storm lineage graph
Cells == 1..MaxCells

\* Predecessor cells of each cell: at most two, each cell has at most two
\* successor cells, and a predecessor ends before its successor starts.
PrevChoices ==
    {prev \in [Cells -> SUBSET Cells] :
        /\ \A c \in Cells : prev[c] \subseteq 1..(c - 1) /\ Cardinality(prev[c]) <= 2
        /\ \A p \in Cells : Cardinality({c \in Cells : p \in prev[c]}) <= 2}

RECURSIVE CellStartTime(_, _)
CellStartTime(prev, c) ==
    IF prev[c] = {} THEN 1
    ELSE 1 + SetMax({CellStartTime(prev, p) + ObjectsPerCell - 1 : p \in prev[c]})

StormObject(prev, c, k) ==
    [secondary_id |-> c,
     valid_time |-> CellStartTime(prev, c) + k - 1,
     prev_secondary_ids |-> IF k = 1 THEN prev[c] ELSE {c},
     next_secondary_ids |-> IF k = ObjectsPerCell
                            THEN {s \in Cells : c \in prev[s]} ELSE {c}]

\* Rows ordered by valid time, then by secondary ID.
RECURSIVE SortStormObjects(_)
SortStormObjects(S) ==
    IF S = {} THEN <<>>
    ELSE LET first == CHOOSE o \in S : \A p \in S :
                        \/ o.valid_time < p.valid_time
                        \/ o.valid_time = p.valid_time /\ o.secondary_id <= p.secondary_id
         IN  <<first>> \o SortStormObjects(S \ {first})

BuildStormObjectTable(prev) ==
    SortStormObjects({StormObject(prev, c, k) : c \in Cells, k \in 1..ObjectsPerCell})

\* temporal_tracking.find_immediate_predecessors: for each recorded previous
\* secondary ID, the latest earlier storm object with that ID.
find_immediate_predecessors(table, target_row) ==
    {j \in DOMAIN table :
        /\ table[j].secondary_id \in table[target_row].prev_secondary_ids
        /\ table[j].valid_time < table[target_row].valid_time
        /\ \A i \in DOMAIN table :
              (/\ table[i].secondary_id = table[j].secondary_id
               /\ table[i].valid_time < table[target_row].valid_time)
              => table[i].valid_time <= table[j].valid_time}

\* temporal_tracking.find_immediate_successors: the time-forward mirror image.
find_immediate_successors(table, target_row) ==
    {j \in DOMAIN table :
        /\ table[j].secondary_id \in table[target_row].next_secondary_ids
        /\ table[j].valid_time > table[target_row].valid_time
        /\ \A i \in DOMAIN table :
              (/\ table[i].secondary_id = table[j].secondary_id
               /\ table[i].valid_time > table[target_row].valid_time)
              => table[i].valid_time >= table[j].valid_time}

\* Does the step from `row` back to its immediate predecessor `pred` count as
\* a secondary-ID change of the given type?
IdChangedBackward(table, row, pred, change_type_string) ==
    IF change_type_string = MERGER_STRING
    THEN Cardinality(find_immediate_predecessors(table, row)) > 1
    ELSE IF change_type_string = SPLIT_STRING
    THEN Cardinality(find_immediate_successors(table, pred)) > 1
    ELSE table[pred].secondary_id # table[row].secondary_id

IdChangedForward(table, row, succ, change_type_string) ==
    IF change_type_string = MERGER_STRING
    THEN Cardinality(find_immediate_predecessors(table, succ)) > 1
    ELSE IF change_type_string = SPLIT_STRING
    THEN Cardinality(find_immediate_successors(table, row)) > 1
    ELSE table[succ].secondary_id # table[row].secondary_id

RECURSIVE WalkBackward(_, _, _, _, _)
WalkBackward(table, frontier, visited, max_num_sec_id_changes, change_type_string) ==
    IF frontier = {} THEN {v[1] : v \in visited}
    ELSE LET f == CHOOSE x \in frontier : TRUE
             new == {<<p, f[2] + (IF IdChangedBackward(table, f[1], p, change_type_string)
                                  THEN 1 ELSE 0)>> :
                        p \in find_immediate_predecessors(table, f[1])}
             kept == {n \in new : n[2] <= max_num_sec_id_changes}
         IN  WalkBackward(table, (frontier \cup kept) \ (visited \cup {f}),
                          visited \cup {f}, max_num_sec_id_changes, change_type_string)

\* temporal_tracking.find_predecessors with num_seconds_back = LARGE_INTEGER and
\* return_all_on_path = True: every row reachable backward from the target row
\* (itself included) along a path with at most max_num_sec_id_changes changes
\* of the given type.
find_predecessors(table, target_row, max_num_sec_id_changes, change_type_string) ==
    WalkBackward(table, {<<target_row, 0>>}, {}, max_num_sec_id_changes,
                 change_type_string)

RECURSIVE WalkForward(_, _, _, _, _)
WalkForward(table, frontier, visited, max_num_sec_id_changes, change_type_string) ==
    IF frontier = {} THEN {v[1] : v \in visited}
    ELSE LET f == CHOOSE x \in frontier : TRUE
             new == {<<s, f[2] + (IF IdChangedForward(table, f[1], s, change_type_string)
                                  THEN 1 ELSE 0)>> :
                        s \in find_immediate_successors(table, f[1])}
             kept == {n \in new : n[2] <= max_num_sec_id_changes}
         IN  WalkForward(table, (frontier \cup kept) \ (visited \cup {f}),
                         visited \cup {f}, max_num_sec_id_changes, change_type_string)

\* temporal_tracking.find_successors, same arguments.
find_successors(table, target_row, max_num_sec_id_changes, change_type_string) ==
    WalkForward(table, {<<target_row, 0>>}, {}, max_num_sec_id_changes,
                change_type_string)

\* max_num_sec_id_changes left at its default (LARGE_INTEGER): no limit.
NoLimit(table) == Len(table)

\* _find_predecessors without the set difference that takes the simple
\* predecessors out of the merging ones.
find_predecessors_without_difference(storm_to_events, target_row) ==
    LET predecessor_rows_one_change ==
            find_predecessors(storm_to_events, target_row, 1, ANY_CHANGE_STRING)
        predecessor_rows_zero_mergers ==
            find_predecessors(storm_to_events, target_row, 0, MERGER_STRING)
        predecessor_rows_one_merger ==
            find_predecessors(storm_to_events, target_row, 1, MERGER_STRING)
    IN  <<predecessor_rows_one_change \cap predecessor_rows_zero_mergers,
          predecessor_rows_one_merger \cap predecessor_rows_one_change>>

\* _find_predecessors: <<simple predecessors, merging predecessors>>.
_find_predecessors(storm_to_events, target_row) ==
    LET predecessor_rows_one_change ==
            find_predecessors(storm_to_events, target_row, 1, ANY_CHANGE_STRING)
        predecessor_rows_zero_mergers ==
            find_predecessors(storm_to_events, target_row, 0, MERGER_STRING)
        simple_predecessor_rows ==
            predecessor_rows_one_change \cap predecessor_rows_zero_mergers
        predecessor_rows_one_merger ==
            find_predecessors(storm_to_events, target_row, 1, MERGER_STRING)
        merging_predecessor_rows ==
            (predecessor_rows_one_merger \cap predecessor_rows_one_change)
                \ simple_predecessor_rows
    IN  <<simple_predecessor_rows, merging_predecessor_rows>>

\* --------------------------------------------------- reversal of linkages
\* Rows of one period as a table of its own (row r of the period is row
\* r + RowOffset(p) of the concatenated table).
RowOffset(p) == IF p = EARLY THEN 0 ELSE num_early_storm_objects

PeriodRows(p) ==
    IF p = EARLY THEN 1..num_early_storm_objects
    ELSE (num_early_storm_objects + 1)..Len(storm_object_table)

PeriodTable(p) ==
    IF p = EARLY THEN SubSeq(storm_object_table, 1, num_early_storm_objects)
    ELSE SubSeq(storm_object_table, num_early_storm_objects + 1, Len(storm_object_table))

\* The empty lists and the False flag that the reversal gives every storm
\* object before it walks the events.
EmptyLinkages(columns) ==
    [c \in Range(columns) |-> IF c = MERGING_PRED_FLAG_COLUMN THEN FALSE ELSE <<>>]

\* One event appended to every list column of one storm object.  A column
\* that copies an attribute of the event holds the event's identifier.
AppendEvent(linkages, event_id, relative_time, main_object_flag) ==
    [c \in DOMAIN linkages |->
        IF c = MERGING_PRED_FLAG_COLUMN THEN linkages[c]
        ELSE IF c = RELATIVE_EVENT_TIMES_COLUMN THEN Append(linkages[c], relative_time)
        ELSE IF c = MAIN_OBJECT_FLAGS_COLUMN THEN Append(linkages[c], main_object_flag)
        ELSE Append(linkages[c], event_id)]

\* The storm object of the event's secondary ID whose valid time is nearest
\* the event's nearest-storm time.
MainObjectRow(table, event) ==
    ArgMinRow({r \in DOMAIN table : table[r].secondary_id = event.nearest_secondary_id},
              [r \in DOMAIN table |-> Abs(event.nearest_storm_time - table[r].valid_time)])

\* The wind loop body without the test that skips storm objects later than
\* the observation.
ReverseOneWindNoTimeTest(table, storm_to_winds, wind_to_storm, k, period) ==
    IF wind_to_storm[k].nearest_secondary_id = None THEN storm_to_winds
    ELSE LET this_main_object_row == MainObjectRow(table, wind_to_storm[k])
             preds == _find_predecessors(table, this_main_object_row)
             flagged(j) == IF j \in preds[2]
                           THEN [storm_to_winds[j] EXCEPT ![MERGING_PRED_FLAG_COLUMN] = TRUE]
                           ELSE storm_to_winds[j]
         IN  [j \in DOMAIN storm_to_winds |->
                IF j \in preds[1]
                THEN AppendEvent(flagged(j), <<period, k>>,
                                 wind_to_storm[k].unix_time_sec - table[j].valid_time,
                                 j = this_main_object_row)
                ELSE flagged(j)]

\* Loop body of _reverse_wind_linkages for wind observation k.
ReverseOneWind(table, storm_to_winds, wind_to_storm, k, period) ==
    IF wind_to_storm[k].nearest_secondary_id = None THEN storm_to_winds
    ELSE LET this_main_object_row == MainObjectRow(table, wind_to_storm[k])
             preds == _find_predecessors(table, this_main_object_row)
             flagged(j) == IF j \in preds[2]
                           THEN [storm_to_winds[j] EXCEPT ![MERGING_PRED_FLAG_COLUMN] = TRUE]
                           ELSE storm_to_winds[j]
         IN  [j \in DOMAIN storm_to_winds |->
                IF j \in preds[1] /\ ~(table[j].valid_time > wind_to_storm[k].unix_time_sec)
                THEN AppendEvent(flagged(j), <<period, k>>,
                                 wind_to_storm[k].unix_time_sec - table[j].valid_time,
                                 j = this_main_object_row)
                ELSE flagged(j)]

RECURSIVE ReverseWindLoop(_, _, _, _, _)
ReverseWindLoop(table, storm_to_winds, wind_to_storm, k, period) ==
    IF k > Len(wind_to_storm) THEN storm_to_winds
    ELSE ReverseWindLoop(table, ReverseOneWind(table, storm_to_winds, wind_to_storm, k, period),
                         wind_to_storm, k + 1, period)

_reverse_wind_linkages(table, wind_to_storm, period) ==
    ReverseWindLoop(table, [i \in DOMAIN table |-> EmptyLinkages(WIND_LINKAGE_COLUMNS)],
                    wind_to_storm, 1, period)

\* The tornado loop body with the merging-predecessor flag set on the simple
\* predecessors instead of the merging ones.
ReverseOneTornadoFlagsSimple(table, storm_to_tornadoes, tornado_to_storm, k, period) ==
    IF tornado_to_storm[k].nearest_secondary_id = None THEN storm_to_tornadoes
    ELSE LET this_main_object_row == MainObjectRow(table, tornado_to_storm[k])
             preds == _find_predecessors(table, this_main_object_row)
             flagged(j) == IF j \in preds[1]
                           THEN [storm_to_tornadoes[j] EXCEPT ![MERGING_PRED_FLAG_COLUMN] = TRUE]
                           ELSE storm_to_tornadoes[j]
         IN  [j \in DOMAIN storm_to_tornadoes |->
                IF j \in preds[1] /\ ~(table[j].valid_time > tornado_to_storm[k].unix_time_sec)
                THEN AppendEvent(flagged(j), <<period, k>>,
                                 tornado_to_storm[k].unix_time_sec - table[j].valid_time,
                                 j = this_main_object_row)
                ELSE flagged(j)]

\* The tornado loop body without the test that skips storm objects later than
\* the tornado.
ReverseOneTornadoNoTimeTest(table, storm_to_tornadoes, tornado_to_storm, k, period) ==
    IF tornado_to_storm[k].nearest_secondary_id = None THEN storm_to_tornadoes
    ELSE LET this_main_object_row == MainObjectRow(table, tornado_to_storm[k])
             preds == _find_predecessors(table, this_main_object_row)
             flagged(j) == IF j \in preds[2]
                           THEN [storm_to_tornadoes[j] EXCEPT ![MERGING_PRED_FLAG_COLUMN] = TRUE]
                           ELSE storm_to_tornadoes[j]
         IN  [j \in DOMAIN storm_to_tornadoes |->
                IF j \in preds[1]
                THEN AppendEvent(flagged(j), <<period, k>>,
                                 tornado_to_storm[k].unix_time_sec - table[j].valid_time,
                                 j = this_main_object_row)
                ELSE flagged(j)]

\* Loop body of _reverse_tornado_linkages for tornado event k.
ReverseOneTornado(table, storm_to_tornadoes, tornado_to_storm, k, period) ==
    IF tornado_to_storm[k].nearest_secondary_id = None THEN storm_to_tornadoes
    ELSE LET this_main_object_row == MainObjectRow(table, tornado_to_storm[k])
             preds == _find_predecessors(table, this_main_object_row)
             flagged(j) == IF j \in preds[2]
                           THEN [storm_to_tornadoes[j] EXCEPT ![MERGING_PRED_FLAG_COLUMN] = TRUE]
                           ELSE storm_to_tornadoes[j]
         IN  [j \in DOMAIN storm_to_tornadoes |->
                IF j \in preds[1] /\ ~(table[j].valid_time > tornado_to_storm[k].unix_time_sec)
                THEN AppendEvent(flagged(j), <<period, k>>,
                                 tornado_to_storm[k].unix_time_sec - table[j].valid_time,
                                 j = this_main_object_row)
                ELSE flagged(j)]

RECURSIVE ReverseTornadoLoop(_, _, _, _, _)
ReverseTornadoLoop(table, storm_to_tornadoes, tornado_to_storm, k, period) ==
    IF k > Len(tornado_to_storm) THEN storm_to_tornadoes
    ELSE ReverseTornadoLoop(table,
                            ReverseOneTornado(table, storm_to_tornadoes, tornado_to_storm,
                                              k, period),
                            tornado_to_storm, k + 1, period)

_reverse_tornado_linkages(table, tornado_to_storm, period) ==
    ReverseTornadoLoop(table, [i \in DOMAIN table |-> EmptyLinkages(TORNADO_LINKAGE_COLUMNS)],
                       tornado_to_storm, 1, period)

\* ------------------------------------- sharing linkages with predecessors
\* Entries of a list picked by index, in increasing index order.
RECURSIVE PickIndices(_, _, _)
PickIndices(list, indices, k) ==
    IF k > Len(list) THEN <<>>
    ELSE (IF k \in indices THEN <<list[k]>> ELSE <<>>) \o PickIndices(list, indices, k + 1)

\* The sharing loop body splicing the events onto the merging predecessors as
\* well as the simple ones.
ShareOneObjectWithMerging(storm_to_events, columns_to_change, i) ==
    LET these_event_indices ==
            {k \in DOMAIN storm_to_events[i][MAIN_OBJECT_FLAGS_COLUMN] :
                storm_to_events[i][MAIN_OBJECT_FLAGS_COLUMN][k]}
        these_rows == find_predecessors(storm_object_table, i, 0, ANY_CHANGE_STRING)
        flagged == [j \in DOMAIN storm_to_events |->
                      IF j \in these_rows
                      THEN [storm_to_events[j] EXCEPT ![MERGING_PRED_FLAG_COLUMN] =
                              storm_to_events[j][MERGING_PRED_FLAG_COLUMN]
                              \/ storm_to_events[i][MERGING_PRED_FLAG_COLUMN]]
                      ELSE storm_to_events[j]]
        these_pred_rows == _find_predecessors(storm_object_table, i)[1]
                             \cup _find_predecessors(storm_object_table, i)[2]
        these_event_times ==
            [k \in 1..Len(flagged[i][RELATIVE_EVENT_TIMES_COLUMN]) |->
                storm_object_table[i].valid_time + flagged[i][RELATIVE_EVENT_TIMES_COLUMN][k]]
        spliced(j) ==
            [c \in DOMAIN flagged[j] |->
                IF c \notin Range(columns_to_change) THEN flagged[j][c]
                ELSE IF c = RELATIVE_EVENT_TIMES_COLUMN
                THEN flagged[j][c] \o
                     PickIndices([k \in DOMAIN these_event_times |->
                                    these_event_times[k] - storm_object_table[j].valid_time],
                                 these_event_indices, 1)
                ELSE IF c = MAIN_OBJECT_FLAGS_COLUMN
                THEN flagged[j][c] \o
                     PickIndices([k \in DOMAIN flagged[i][c] |-> FALSE], these_event_indices, 1)
                ELSE flagged[j][c] \o PickIndices(flagged[i][c], these_event_indices, 1)]
    IN  IF these_event_indices = {} THEN storm_to_events
        ELSE [j \in DOMAIN flagged |->
                IF j \in these_pred_rows /\ j # i THEN spliced(j) ELSE flagged[j]]

\* The sharing loop body copying the relative times of the main object onto
\* the predecessors as they are.
ShareOneObjectTimesCopied(storm_to_events, columns_to_change, i) ==
    LET these_event_indices ==
            {k \in DOMAIN storm_to_events[i][MAIN_OBJECT_FLAGS_COLUMN] :
                storm_to_events[i][MAIN_OBJECT_FLAGS_COLUMN][k]}
        these_rows == find_predecessors(storm_object_table, i, 0, ANY_CHANGE_STRING)
        flagged == [j \in DOMAIN storm_to_events |->
                      IF j \in these_rows
                      THEN [storm_to_events[j] EXCEPT ![MERGING_PRED_FLAG_COLUMN] =
                              storm_to_events[j][MERGING_PRED_FLAG_COLUMN]
                              \/ storm_to_events[i][MERGING_PRED_FLAG_COLUMN]]
                      ELSE storm_to_events[j]]
        these_simple_pred_rows == _find_predecessors(storm_object_table, i)[1]
        these_event_times ==
            [k \in 1..Len(flagged[i][RELATIVE_EVENT_TIMES_COLUMN]) |->
                storm_object_table[i].valid_time + flagged[i][RELATIVE_EVENT_TIMES_COLUMN][k]]
        spliced(j) ==
            [c \in DOMAIN flagged[j] |->
                IF c \notin Range(columns_to_change) THEN flagged[j][c]
                ELSE IF c = RELATIVE_EVENT_TIMES_COLUMN
                THEN flagged[j][c] \o
                     PickIndices(flagged[i][c], these_event_indices, 1)
                ELSE IF c = MAIN_OBJECT_FLAGS_COLUMN
                THEN flagged[j][c] \o
                     PickIndices([k \in DOMAIN flagged[i][c] |-> FALSE], these_event_indices, 1)
                ELSE flagged[j][c] \o PickIndices(flagged[i][c], these_event_indices, 1)]
    IN  IF these_event_indices = {} THEN storm_to_events
        ELSE [j \in DOMAIN flagged |->
                IF j \in these_simple_pred_rows /\ j # i THEN spliced(j) ELSE flagged[j]]

\* Loop body of _share_linkages_with_predecessors for late-period row i.
ShareOneObject(storm_to_events, columns_to_change, i) ==
    LET these_event_indices ==
            {k \in DOMAIN storm_to_events[i][MAIN_OBJECT_FLAGS_COLUMN] :
                storm_to_events[i][MAIN_OBJECT_FLAGS_COLUMN][k]}
        these_rows == find_predecessors(storm_object_table, i, 0, ANY_CHANGE_STRING)
        flagged == [j \in DOMAIN storm_to_events |->
                      IF j \in these_rows
                      THEN [storm_to_events[j] EXCEPT ![MERGING_PRED_FLAG_COLUMN] =
                              storm_to_events[j][MERGING_PRED_FLAG_COLUMN]
                              \/ storm_to_events[i][MERGING_PRED_FLAG_COLUMN]]
                      ELSE storm_to_events[j]]
        these_simple_pred_rows == _find_predecessors(storm_object_table, i)[1]
        these_event_times ==
            [k \in 1..Len(flagged[i][RELATIVE_EVENT_TIMES_COLUMN]) |->
                storm_object_table[i].valid_time + flagged[i][RELATIVE_EVENT_TIMES_COLUMN][k]]
        spliced(j) ==
            [c \in DOMAIN flagged[j] |->
                IF c \notin Range(columns_to_change) THEN flagged[j][c]
                ELSE IF c = RELATIVE_EVENT_TIMES_COLUMN
                THEN flagged[j][c] \o
                     PickIndices([k \in DOMAIN these_event_times |->
                                    these_event_times[k] - storm_object_table[j].valid_time],
                                 these_event_indices, 1)
                ELSE IF c = MAIN_OBJECT_FLAGS_COLUMN
                THEN flagged[j][c] \o
                     PickIndices([k \in DOMAIN flagged[i][c] |-> FALSE], these_event_indices, 1)
                ELSE flagged[j][c] \o PickIndices(flagged[i][c], these_event_indices, 1)]
    IN  IF these_event_indices = {} THEN storm_to_events
        ELSE [j \in DOMAIN flagged |->
                IF j \in these_simple_pred_rows /\ j # i THEN spliced(j) ELSE flagged[j]]

RECURSIVE ShareLoop(_, _, _)
ShareLoop(storm_to_events, columns_to_change, i) ==
    IF i > Len(storm_to_events) THEN storm_to_events
    ELSE ShareLoop(ShareOneObject(storm_to_events, columns_to_change, i),
                   columns_to_change, i + 1)

\* list.remove(x): drops the first occurrence of x.
RECURSIVE ListRemove(_, _)
ListRemove(list, x) ==
    IF list = <<>> THEN <<>>
    ELSE IF Head(list) = x THEN Tail(list)
    ELSE <<Head(list)>> \o ListRemove(Tail(list), x)

\* _share_linkages_with_predecessors on the concatenation of the early and the
\* late table; `columns` is the module-level list it picks for the event type.
_share_linkages_with_predecessors(storm_to_events, columns) ==
    ShareLoop(storm_to_events, ListRemove(columns, MERGING_PRED_FLAG_COLUMN),
              num_early_storm_objects + 1)

\* ------------------------------------------------- lineage specification
\* Events that _find_nearest_storms can have linked to cells of one period:
\* within the time window of the cell, nearest-storm time the interpolation
\* instant (wind) or the segment's own time (tornado).
LinkedEvents(table, type) ==
    {[unix_time_sec |-> t, nearest_secondary_id |-> c,
      nearest_storm_time |-> RoundToNearest(t, interval)] :
        c \in {table[r].secondary_id : r \in DOMAIN table},
        t \in 0..(MaxCells * ObjectsPerCell + DEFAULT_MAX_TIME_AFTER_STORM_SEC),
        interval \in IF type = WIND_EVENT_STRING THEN InterpTimeIntervals ELSE {1}}

EventInWindow(table, event) ==
    LET times == {table[r].valid_time :
                    r \in {q \in DOMAIN table :
                             table[q].secondary_id = event.nearest_secondary_id}}
    IN  /\ SetMin(times) <= event.nearest_storm_time + DEFAULT_MAX_TIME_BEFORE_STORM_SEC
        /\ SetMax(times) >= event.nearest_storm_time - DEFAULT_MAX_TIME_AFTER_STORM_SEC

UnlinkedEvent == [unix_time_sec |-> 1, nearest_secondary_id |-> None, nearest_storm_time |-> -1]

PossibleEvents(table, type) ==
    {e \in LinkedEvents(table, type) : EventInWindow(table, e)} \cup {UnlinkedEvent}

EventTables(table, type, max_len) ==
    UNION {[1..n -> PossibleEvents(table, type)] : n \in 0..max_len}

LineageInit ==
    /\ \E prev \in PrevChoices : storm_object_table = BuildStormObjectTable(prev)
    /\ num_early_storm_objects \in 0..Len(storm_object_table)
    /\ IF num_early_storm_objects \in {0, Len(storm_object_table)} THEN TRUE
       ELSE storm_object_table[num_early_storm_objects].valid_time
              < storm_object_table[num_early_storm_objects + 1].valid_time
    /\ event_type_string \in {WIND_EVENT_STRING, TORNADO_EVENT_STRING}
    /\ \E n \in 0..MaxEvents :
          event_to_storm_table \in
              {<<e, l>> : e \in EventTables(PeriodTable(EARLY), event_type_string, n),
                          l \in EventTables(PeriodTable(LATE), event_type_string, MaxEvents - n)}
    /\ storm_to_events_table = [i \in DOMAIN storm_object_table |-> <<>>]
    /\ linkage_columns = [wind |-> WIND_LINKAGE_COLUMNS, tornado |-> TORNADO_LINKAGE_COLUMNS]
    /\ reversed_periods = {}
    /\ num_share_calls = 0
    /\ share_raised = FALSE
    /\ MatcherIdle /\ RedundantIdle /\ LinkingIdle /\ InterpIdle /\ FileIdle /\ ProjectionIdle /\ StitchIdle

\* link_storms_to_winds, one period: the wind linkages of the period reversed.
ReverseWindLinkages ==
    /\ event_type_string = WIND_EVENT_STRING
    /\ \E p \in Periods \ reversed_periods :
          LET result == _reverse_wind_linkages(PeriodTable(p), event_to_storm_table[p], p)
          IN  /\ storm_to_events_table' =
                    [i \in DOMAIN storm_to_events_table |->
                        IF i \in PeriodRows(p) THEN result[i - RowOffset(p)]
                        ELSE storm_to_events_table[i]]
              /\ reversed_periods' = reversed_periods \cup {p}
    /\ UNCHANGED <<storm_object_table, num_early_storm_objects, event_type_string,
                   event_to_storm_table, linkage_columns, num_share_calls, share_raised>>
    /\ UNCHANGED not_lineage_vars

\* link_storms_to_tornadoes, one period.
ReverseTornadoLinkages ==
    /\ event_type_string = TORNADO_EVENT_STRING
    /\ \E p \in Periods \ reversed_periods :
          LET result == _reverse_tornado_linkages(PeriodTable(p), event_to_storm_table[p], p)
          IN  /\ storm_to_events_table' =
                    [i \in DOMAIN storm_to_events_table |->
                        IF i \in PeriodRows(p) THEN result[i - RowOffset(p)]
                        ELSE storm_to_events_table[i]]
              /\ reversed_periods' = reversed_periods \cup {p}
    /\ UNCHANGED <<storm_object_table, num_early_storm_objects, event_type_string,
                   event_to_storm_table, linkage_columns, num_share_calls, share_raised>>
    /\ UNCHANGED not_lineage_vars

\* share_linkages, the step for one pair of adjacent periods: one call of
\* _share_linkages_with_predecessors in a process that has made
\* num_share_calls calls of it before.  list.remove raises ValueError if the
\* column is not in the module-level list.
ShareLinkagesWithPredecessors ==
    /\ reversed_periods = Periods
    /\ num_share_calls < MaxShareCalls
    /\ ~share_raised
    /\ LET key == IF event_type_string = TORNADO_EVENT_STRING THEN "tornado" ELSE "wind"
       IN  IF MERGING_PRED_FLAG_COLUMN \in Range(linkage_columns[key])
           THEN /\ storm_to_events_table' =
                      _share_linkages_with_predecessors(storm_to_events_table,
                                                        linkage_columns[key])
                /\ linkage_columns' =
                      [linkage_columns EXCEPT ![key] = ListRemove(@, MERGING_PRED_FLAG_COLUMN)]
                /\ share_raised' = FALSE
           ELSE /\ share_raised' = TRUE
                /\ UNCHANGED <<storm_to_events_table, linkage_columns>>
    /\ num_share_calls' = num_share_calls + 1
    /\ UNCHANGED <<storm_object_table, num_early_storm_objects, event_type_string,
                   event_to_storm_table, reversed_periods>>
    /\ UNCHANGED not_lineage_vars

LineageNext ==
    \/ ReverseWindLinkages
    \/ ReverseTornadoLinkages
    \/ ShareLinkagesWithPredecessors

SpecLineage == LineageInit /\ [][LineageNext]_vars

\* ------------------------------------------------------ nearest-storm matcher
\* polygons.vertex_arrays_to_polygon_object and polygons.point_in_or_on_polygon
\* for the outlines of this model, which are axis-aligned rectangles given by
\* their corners: the point is inside or on the outline iff it is within the
\* extent of the vertices.
point_in_or_on_polygon(vertices, query_x, query_y) ==
    /\ vertices # {}
    /\ SetMin({v.vertex_x : v \in vertices}) <= query_x
    /\ query_x <= SetMax({v.vertex_x : v \in vertices})
    /\ SetMin({v.vertex_y : v \in vertices}) <= query_y
    /\ query_y <= SetMax({v.vertex_y : v \in vertices})

StormVertices(vertex_table, secondary_id) ==
    {vertex_table[i] : i \in {n \in DOMAIN vertex_table :
                                 vertex_table[n].secondary_id = secondary_id}}

SquaredDistance(vertex, x, y) ==
    (x - vertex.vertex_x) * (x - vertex.vertex_x) + (y - vertex.vertex_y) * (y - vertex.vertex_y)

\* Vertices within `distance` of the event along both axes.
VertexIndicesInBox(vertex_table, x, y, distance) ==
    {i \in DOMAIN vertex_table :
        /\ Abs(x - vertex_table[i].vertex_x) <= distance
        /\ Abs(y - vertex_table[i].vertex_y) <= distance}

\* The nearest-storm search with the max link distance as the radius of the
\* containment attempt as well.
NearestStormAttemptAtLinkDistance(vertex_table, x, y, max_link_distance_metres, max_polygon_attempt_distance_metres) ==
    LET these_vertex_indices ==
            VertexIndicesInBox(vertex_table, x, y, max_link_distance_metres)
        these_secondary_ids == {vertex_table[i].secondary_id : i \in these_vertex_indices}
        containing == {id \in these_secondary_ids :
                          point_in_or_on_polygon(StormVertices(vertex_table, id), x, y)}
        near_indices == VertexIndicesInBox(vertex_table, x, y, max_link_distance_metres)
        distance(i) == SquaredDistance(vertex_table[i], x, y)
    IN  IF these_vertex_indices = {} THEN <<None, NaN>>
        ELSE IF containing # {} THEN <<SetMin(containing), 0>>
        ELSE IF near_indices = {} THEN <<None, NaN>>
        ELSE IF ~(\E i \in near_indices :
                    distance(i) <= max_link_distance_metres * max_link_distance_metres)
        THEN <<None, NaN>>
        ELSE LET this_min_index == ArgMinRow(near_indices, [i \in near_indices |-> distance(i)])
                 id == vertex_table[this_min_index].secondary_id
             IN  IF point_in_or_on_polygon(StormVertices(vertex_table, id), x, y)
                 THEN <<id, 0>> ELSE <<id, distance(this_min_index)>>

\* The nearest-storm search accepting any vertex inside the link-distance box,
\* without the test on the Euclidean distance.
NearestStormWithoutDistanceTest(vertex_table, x, y, max_link_distance_metres, max_polygon_attempt_distance_metres) ==
    LET attempt_distance == IF max_polygon_attempt_distance_metres
                                 >= 2 * max_link_distance_metres
                            THEN max_polygon_attempt_distance_metres
                            ELSE 2 * max_link_distance_metres
        these_vertex_indices == VertexIndicesInBox(vertex_table, x, y, attempt_distance)
        these_secondary_ids == {vertex_table[i].secondary_id : i \in these_vertex_indices}
        containing == {id \in these_secondary_ids :
                          point_in_or_on_polygon(StormVertices(vertex_table, id), x, y)}
        near_indices == VertexIndicesInBox(vertex_table, x, y, max_link_distance_metres)
        distance(i) == SquaredDistance(vertex_table[i], x, y)
    IN  IF these_vertex_indices = {} THEN <<None, NaN>>
        ELSE IF containing # {} THEN <<SetMin(containing), 0>>
        ELSE IF near_indices = {} THEN <<None, NaN>>
        ELSE LET this_min_index == ArgMinRow(near_indices, [i \in near_indices |-> distance(i)])
                 id == vertex_table[this_min_index].secondary_id
             IN  IF point_in_or_on_polygon(StormVertices(vertex_table, id), x, y)
                 THEN <<id, 0>> ELSE <<id, distance(this_min_index)>>

\* Loop body of _find_nearest_storms_one_time for one event:
\* <<nearest secondary ID, linkage distance>>.
NearestStormOfEvent(vertex_table, x, y, max_link_distance_metres, max_polygon_attempt_distance_metres) ==
    LET attempt_distance == IF max_polygon_attempt_distance_metres
                                 >= 2 * max_link_distance_metres
                            THEN max_polygon_attempt_distance_metres
                            ELSE 2 * max_link_distance_metres
        these_vertex_indices == VertexIndicesInBox(vertex_table, x, y, attempt_distance)
        \* numpy.unique: tried in ascending order of secondary ID
        these_secondary_ids == {vertex_table[i].secondary_id : i \in these_vertex_indices}
        containing == {id \in these_secondary_ids :
                          point_in_or_on_polygon(StormVertices(vertex_table, id), x, y)}
        near_indices == VertexIndicesInBox(vertex_table, x, y, max_link_distance_metres)
        distance(i) == SquaredDistance(vertex_table[i], x, y)
    IN  IF these_vertex_indices = {} THEN <<None, NaN>>
        ELSE IF containing # {} THEN <<SetMin(containing), 0>>
        ELSE IF near_indices = {} THEN <<None, NaN>>
        ELSE IF ~(\E i \in near_indices :
                    distance(i) <= max_link_distance_metres * max_link_distance_metres)
        THEN <<None, NaN>>
        ELSE LET this_min_index == ArgMinRow(near_indices, [i \in near_indices |-> distance(i)])
                 id == vertex_table[this_min_index].secondary_id
             IN  IF point_in_or_on_polygon(StormVertices(vertex_table, id), x, y)
                 THEN <<id, 0>> ELSE <<id, distance(this_min_index)>>

\* _find_nearest_storms_one_time: one <<ID, distance>> pair per event.
_find_nearest_storms_one_time(vertex_table, xs, ys, max_link_distance_metres, max_polygon_attempt_distance_metres) ==
    [k \in DOMAIN xs |->
        NearestStormOfEvent(vertex_table, xs[k], ys[k], max_link_distance_metres,
                            max_polygon_attempt_distance_metres)]

\* --------------------------------------------------- matcher specification
\* Outline of one interpolated storm: the corners of the rectangle
\* [x1, x2] x [0, 2], in order around the outline.
RectangleVertices(secondary_id, x1, x2) ==
    <<[secondary_id |-> secondary_id, vertex_x |-> x1, vertex_y |-> 0],
      [secondary_id |-> secondary_id, vertex_x |-> x2, vertex_y |-> 0],
      [secondary_id |-> secondary_id, vertex_x |-> x2, vertex_y |-> 2],
      [secondary_id |-> secondary_id, vertex_x |-> x1, vertex_y |-> 2]>>

\* Vertex tables with two storms, listed in either order of their IDs.
VertexTables ==
    {RectangleVertices(ids[1], a[1], a[2]) \o RectangleVertices(ids[2], b[1], b[2]) :
        ids \in {<<1, 2>>, <<2, 1>>},
        a \in {r \in (0..GridX) \X (0..GridX) : r[1] < r[2]},
        b \in {r \in (0..GridX) \X (0..GridX) : r[1] < r[2]}}

MatcherInit ==
    /\ interp_vertex_table \in VertexTables
    /\ event_x_coords \in [1..1 -> 0..GridX]
    /\ event_y_coords \in [1..1 -> 0..GridY]
    /\ max_link_distance \in 1..MaxLinkDistance
    /\ nearest_secondary_ids = <<>>
    /\ linkage_distances = <<>>
    /\ matcher_done = FALSE
    /\ LineageIdle /\ RedundantIdle /\ LinkingIdle /\ InterpIdle /\ FileIdle /\ ProjectionIdle /\ StitchIdle

FindNearestStormsOneTime ==
    /\ ~matcher_done
    /\ LET result == _find_nearest_storms_one_time(
                         interp_vertex_table, event_x_coords, event_y_coords,
                         max_link_distance, DEFAULT_MAX_POLYGON_ATTEMPT_DISTANCE)
       IN  /\ nearest_secondary_ids' = [k \in DOMAIN result |-> result[k][1]]
           /\ linkage_distances' = [k \in DOMAIN result |-> result[k][2]]
    /\ matcher_done' = TRUE
    /\ UNCHANGED <<interp_vertex_table, event_x_coords, event_y_coords, max_link_distance>>
    /\ UNCHANGED not_matcher_vars

MatcherNext == FindNearestStormsOneTime

SpecMatcher == MatcherInit /\ [][MatcherNext]_vars

\* ------------------------------------------------------ matcher properties
StormIdsOf(vertex_table) == {vertex_table[i].secondary_id : i \in DOMAIN vertex_table}

\* The event is inside the outline of the storm and on none of its edges.
StrictlyInside(vertex_table, secondary_id, x, y) ==
    LET vertices == StormVertices(vertex_table, secondary_id)
    IN  /\ SetMin({v.vertex_x : v \in vertices}) < x
        /\ x < SetMax({v.vertex_x : v \in vertices})
        /\ SetMin({v.vertex_y : v \in vertices}) < y
        /\ y < SetMax({v.vertex_y : v \in vertices})

AttemptDistance ==
    IF DEFAULT_MAX_POLYGON_ATTEMPT_DISTANCE >= 2 * max_link_distance
    THEN DEFAULT_MAX_POLYGON_ATTEMPT_DISTANCE ELSE 2 * max_link_distance

\* Some vertex of the storm is within the attempt distance of the event along
\* both axes.
HasVertexInAttemptBox(secondary_id, k) ==
    \E v \in StormVertices(interp_vertex_table, secondary_id) :
        /\ Abs(event_x_coords[k] - v.vertex_x) <= AttemptDistance
        /\ Abs(event_y_coords[k] - v.vertex_y) <= AttemptDistance

\* C2 as stated: every event strictly inside the outline of some storm is
\* linked with distance 0, whatever max_link_distance_metres > 0 and however
\* far the vertices of the outline are from the event.
C2_InsideAlwaysLinkedAtZero ==
    matcher_done =>
        \A k \in DOMAIN event_x_coords :
            (\E id \in StormIdsOf(interp_vertex_table) :
                StrictlyInside(interp_vertex_table, id, event_x_coords[k], event_y_coords[k]))
            => nearest_secondary_ids[k] # None /\ linkage_distances[k] = 0

\* C2 amended: every event strictly inside the outline of a storm that has a
\* vertex within max(max_polygon_attempt_distance_metres,
\* 2 * max_link_distance_metres) of the event along both axes is linked with
\* distance 0, for every max_link_distance_metres > 0.
C2_InsideNearVertexLinkedAtZero ==
    matcher_done =>
        \A k \in DOMAIN event_x_coords :
            (\E id \in StormIdsOf(interp_vertex_table) :
                /\ StrictlyInside(interp_vertex_table, id, event_x_coords[k], event_y_coords[k])
                /\ HasVertexInAttemptBox(id, k))
            => nearest_secondary_ids[k] # None /\ linkage_distances[k] = 0

\* The matcher has linked, at distance 0, an event strictly inside an outline
\* all of whose vertices are farther than the max link distance from it.
C2_Witness ==
    /\ matcher_done
    /\ \E k \in DOMAIN event_x_coords : \E id \in StormIdsOf(interp_vertex_table) :
          /\ StrictlyInside(interp_vertex_table, id, event_x_coords[k], event_y_coords[k])
          /\ HasVertexInAttemptBox(id, k)
          /\ \A v \in StormVertices(interp_vertex_table, id) :
                SquaredDistance(v, event_x_coords[k], event_y_coords[k])
                   > max_link_distance * max_link_distance
          /\ nearest_secondary_ids[k] # None /\ linkage_distances[k] = 0

\* C3: an event that is in or on no storm outline and whose Euclidean distance
\* to every vertex exceeds max_link_distance_metres is returned unlinked:
\* secondary ID None, linkage distance NaN.
C3_FarEventUnlinked ==
    matcher_done =>
        \A k \in DOMAIN event_x_coords :
            (/\ \A id \in StormIdsOf(interp_vertex_table) :
                   ~point_in_or_on_polygon(StormVertices(interp_vertex_table, id),
                                           event_x_coords[k], event_y_coords[k])
             /\ \A i \in DOMAIN interp_vertex_table :
                   SquaredDistance(interp_vertex_table[i], event_x_coords[k], event_y_coords[k])
                      > max_link_distance * max_link_distance)
            => nearest_secondary_ids[k] = None /\ linkage_distances[k] = NaN

\* The matcher has left unlinked an event outside every outline that has a
\* vertex inside its link-distance box, but none within the link distance.
C3_Witness ==
    /\ matcher_done
    /\ \E k \in DOMAIN event_x_coords :
          /\ \A id \in StormIdsOf(interp_vertex_table) :
                ~point_in_or_on_polygon(StormVertices(interp_vertex_table, id),
                                        event_x_coords[k], event_y_coords[k])
          /\ VertexIndicesInBox(interp_vertex_table, event_x_coords[k], event_y_coords[k],
                                max_link_distance) # {}
          /\ \A i \in DOMAIN interp_vertex_table :
                SquaredDistance(interp_vertex_table[i], event_x_coords[k], event_y_coords[k])
                   > max_link_distance * max_link_distance
          /\ nearest_secondary_ids[k] = None /\ linkage_distances[k] = NaN

\* ------------------------------------------ redundant tornado linkages
RowsOfTornado(table, tornado_id) ==
    {i \in DOMAIN table : table[i].tornado_id = tornado_id}

\* DataFrame.drop of all rows of one tornado, the other rows keeping their order.
DropTornado(table, tornado_id) ==
    SelectSeq(table, LAMBDA row : row.tornado_id # tornado_id)

\* Row of the earliest track segment among `rows`.
StartRow(table, rows) ==
    ArgMinRow(rows, [i \in rows |-> table[i].unix_time_sec])

\* The loop body dropping, from the losing table, the row of the first track
\* segment only.
RemoveOneTornadoStartRowOnly(tables, this_tornado_id) ==
    LET early == tables.early
        late == tables.late
        these_early_rows == RowsOfTornado(early, this_tornado_id)
        these_late_rows == RowsOfTornado(late, this_tornado_id)
        this_early_row == StartRow(early, these_early_rows)
        this_late_row == StartRow(late, these_late_rows)
        drop_early == [tables EXCEPT !.early = PickIndices(early, DOMAIN early \ {this_early_row}, 1)]
        drop_late == [tables EXCEPT !.late = PickIndices(late, DOMAIN late \ {this_late_row}, 1)]
    IN  IF tables.raised THEN tables
        ELSE IF these_early_rows = {} \/ these_late_rows = {} THEN tables
        ELSE IF early[this_early_row].unix_time_sec # late[this_late_row].unix_time_sec
        THEN [tables EXCEPT !.raised = TRUE]
        ELSE IF early[this_early_row].nearest_secondary_id = None THEN drop_early
        ELSE IF late[this_late_row].nearest_secondary_id = None THEN drop_late
        ELSE IF early[this_early_row].linkage_distance <= late[this_late_row].linkage_distance
        THEN drop_late
        ELSE drop_early

\* The loop body testing for a missing linkage before comparing the start
\* times of the two periods.
RemoveOneTornadoNoneTestFirst(tables, this_tornado_id) ==
    LET early == tables.early
        late == tables.late
        these_early_rows == RowsOfTornado(early, this_tornado_id)
        these_late_rows == RowsOfTornado(late, this_tornado_id)
        this_early_row == StartRow(early, these_early_rows)
        this_late_row == StartRow(late, these_late_rows)
        drop_early == [tables EXCEPT !.early = DropTornado(early, this_tornado_id)]
        drop_late == [tables EXCEPT !.late = DropTornado(late, this_tornado_id)]
    IN  IF tables.raised THEN tables
        ELSE IF these_early_rows = {} \/ these_late_rows = {} THEN tables
        ELSE IF early[this_early_row].nearest_secondary_id = None THEN drop_early
        ELSE IF late[this_late_row].nearest_secondary_id = None THEN drop_late
        ELSE IF early[this_early_row].unix_time_sec # late[this_late_row].unix_time_sec
        THEN [tables EXCEPT !.raised = TRUE]
        ELSE IF early[this_early_row].linkage_distance <= late[this_late_row].linkage_distance
        THEN drop_late
        ELSE drop_early

\* Loop body of _remove_redundant_tornado_linkages for one tornado ID.  The
\* tables are changed in place; after a raise nothing more is done.
RemoveOneTornado(tables, this_tornado_id) ==
    LET early == tables.early
        late == tables.late
        these_early_rows == RowsOfTornado(early, this_tornado_id)
        these_late_rows == RowsOfTornado(late, this_tornado_id)
        this_early_row == StartRow(early, these_early_rows)
        this_late_row == StartRow(late, these_late_rows)
        drop_early == [tables EXCEPT !.early = DropTornado(early, this_tornado_id)]
        drop_late == [tables EXCEPT !.late = DropTornado(late, this_tornado_id)]
    IN  IF tables.raised THEN tables
        ELSE IF these_early_rows = {} \/ these_late_rows = {} THEN tables
        ELSE IF early[this_early_row].unix_time_sec # late[this_late_row].unix_time_sec
        THEN [tables EXCEPT !.raised = TRUE]
        ELSE IF early[this_early_row].nearest_secondary_id = None THEN drop_early
        ELSE IF late[this_late_row].nearest_secondary_id = None THEN drop_late
        ELSE IF early[this_early_row].linkage_distance <= late[this_late_row].linkage_distance
        THEN drop_late
        ELSE drop_early

\* The loop over numpy.unique of the tornado IDs: ascending order.
RECURSIVE RemoveLoop(_, _)
RemoveLoop(tables, tornado_ids) ==
    IF tornado_ids = {} THEN tables
    ELSE LET this_tornado_id == SetMin(tornado_ids)
         IN  RemoveLoop(RemoveOneTornado(tables, this_tornado_id),
                        tornado_ids \ {this_tornado_id})

_remove_redundant_tornado_linkages(early, late) ==
    RemoveLoop([early |-> early, late |-> late, raised |-> FALSE],
               {early[i].tornado_id : i \in DOMAIN early}
                   \cup {late[i].tornado_id : i \in DOMAIN late})

\* ------------------------------------------------- removal specification
\* Linkage of one track segment as _find_nearest_storms leaves it: unlinked,
\* or linked to a storm at some distance.
SegmentLinkages == {<<None, NaN>>} \cup {<<1, d>> : d \in {0, 1}}

TornadoStartTimes == {0, 1}

\* Rows of one tornado: consecutive track segments from its start time.
TornadoRows(tornado_id, start_time, linkages) ==
    [n \in DOMAIN linkages |->
        [tornado_id |-> tornado_id, unix_time_sec |-> start_time + n - 1,
         nearest_secondary_id |-> linkages[n][1], linkage_distance |-> linkages[n][2]]]

\* The tornado is absent from the table or has up to max_segments segments.
TornadoProfiles(tornado_id, max_segments) ==
    {<<>>} \cup
    {TornadoRows(tornado_id, start_time, linkages) :
        start_time \in TornadoStartTimes,
        linkages \in UNION {[1..n -> SegmentLinkages] : n \in 1..max_segments}}

TornadoToStormTables ==
    {a \o b : a \in TornadoProfiles(1, 1), b \in TornadoProfiles(2, MaxSegments)}

RedundantInit ==
    /\ early_tornado_to_storm_table \in TornadoToStormTables
    /\ late_tornado_to_storm_table \in TornadoToStormTables
    /\ tables_on_entry = <<>>
    /\ removal_raised = FALSE
    /\ num_removal_calls = 0
    /\ LineageIdle /\ MatcherIdle /\ LinkingIdle /\ InterpIdle /\ FileIdle /\ ProjectionIdle /\ StitchIdle

\* One call of _remove_redundant_tornado_linkages on the current tables.
RemoveRedundantTornadoLinkages ==
    /\ ~removal_raised
    /\ num_removal_calls < MaxRemovalCalls
    /\ LET result == _remove_redundant_tornado_linkages(
                         early_tornado_to_storm_table, late_tornado_to_storm_table)
       IN  /\ early_tornado_to_storm_table' = result.early
           /\ late_tornado_to_storm_table' = result.late
           /\ removal_raised' = result.raised
    /\ tables_on_entry' = <<early_tornado_to_storm_table, late_tornado_to_storm_table>>
    /\ num_removal_calls' = num_removal_calls + 1
    /\ UNCHANGED not_redundant_vars

RedundantNext == RemoveRedundantTornadoLinkages

SpecRedundant == RedundantInit /\ [][RedundantNext]_vars

\* ------------------------------------------------------ removal properties
TornadoIdsIn(table) == {table[i].tornado_id : i \in DOMAIN table}

RowsKept(table, tornado_id) ==
    SelectSeq(table, LAMBDA row : row.tornado_id = tornado_id)

\* Some track segment of the tornado is linked in the table.
LinkedIn(table, tornado_id) ==
    \E i \in RowsOfTornado(table, tornado_id) : table[i].nearest_secondary_id # None

\* Linkage distances of the linked track segments of the tornado in the table.
DistancesIn(table, tornado_id) ==
    {table[i].linkage_distance :
        i \in {r \in RowsOfTornado(table, tornado_id) :
                  table[r].nearest_secondary_id # None}}

\* C9: a call of _remove_redundant_tornado_linkages on the output of a call
\* that did not raise does not raise and returns the two tables unchanged.
C9_RemovalIdempotent ==
    num_removal_calls >= 2 =>
        /\ ~removal_raised
        /\ <<early_tornado_to_storm_table, late_tornado_to_storm_table>> = tables_on_entry

\* The second call has returned, on tables from which the first call had
\* dropped the rows of a tornado found in both.
C9_Witness ==
    /\ num_removal_calls = 2
    /\ ~removal_raised
    /\ Len(early_tornado_to_storm_table) + Len(late_tornado_to_storm_table)
          < 2 * (MaxSegments + 1)
    /\ early_tornado_to_storm_table # <<>>
    /\ late_tornado_to_storm_table # <<>>

\* C10: after a call that did not raise, every tornado that was in both
\* tables has all its rows in exactly one table: the period with the smaller
\* linkage distance, the early period on a tie, and the linked period when the
\* other period has no linkage; no tornado ID is in both tables, and the rows
\* of tornadoes that were in one table only are untouched.  A period has a
\* linkage if some track segment of the tornado is linked in it, and its
\* distance is smaller (or tied) if that holds of all its linked segments
\* against all linked segments of the other period.
C10_KeepsBetterPeriod ==
    (num_removal_calls = 1 /\ ~removal_raised) =>
        LET early_before == tables_on_entry[1]
            late_before == tables_on_entry[2]
            early == early_tornado_to_storm_table
            late == late_tornado_to_storm_table
        IN  /\ TornadoIdsIn(early) \cap TornadoIdsIn(late) = {}
            /\ \A id \in TornadoIdsIn(early_before) \cup TornadoIdsIn(late_before) :
                  IF id \in TornadoIdsIn(early_before) \cap TornadoIdsIn(late_before)
                  THEN LET keep_early ==
                               /\ RowsKept(early, id) = RowsKept(early_before, id)
                               /\ RowsKept(late, id) = <<>>
                           keep_late ==
                               /\ RowsKept(late, id) = RowsKept(late_before, id)
                               /\ RowsKept(early, id) = <<>>
                       IN  /\ keep_early \/ keep_late
                           /\ (LinkedIn(early_before, id) /\ ~LinkedIn(late_before, id))
                                 => keep_early
                           /\ (LinkedIn(late_before, id) /\ ~LinkedIn(early_before, id))
                                 => keep_late
                           /\ (/\ LinkedIn(early_before, id) /\ LinkedIn(late_before, id)
                               /\ \A d \in DistancesIn(early_before, id) :
                                     \A e \in DistancesIn(late_before, id) : d <= e)
                                 => keep_early
                           /\ (/\ LinkedIn(early_before, id) /\ LinkedIn(late_before, id)
                               /\ \A d \in DistancesIn(early_before, id) :
                                     \A e \in DistancesIn(late_before, id) : e < d)
                                 => keep_late
                  ELSE /\ RowsKept(early, id) = RowsKept(early_before, id)
                       /\ RowsKept(late, id) = RowsKept(late_before, id)

\* Earliest track-segment time of the tornado in the table.
StartTimeIn(table, tornado_id) ==
    SetMin({table[i].unix_time_sec : i \in RowsOfTornado(table, tornado_id)})

\* Tornado IDs found in both tables with different start times.
MismatchedTornadoIds(early, late) ==
    {id \in TornadoIdsIn(early) \cap TornadoIdsIn(late) :
        StartTimeIn(early, id) # StartTimeIn(late, id)}

\* C11: if some tornado ID is in both the early and the late table with
\* different start times (earliest segment times), the call of
\* _remove_redundant_tornado_linkages raises ValueError.
C11_MismatchedStartTimesRaise ==
    (num_removal_calls >= 1
        /\ MismatchedTornadoIds(tables_on_entry[1], tables_on_entry[2]) # {})
    => removal_raised

\* A call has raised on tables where the offending tornado is not the first
\* one processed and its first early segment is unlinked.
C11_Witness ==
    /\ num_removal_calls = 1
    /\ removal_raised
    /\ 1 \in TornadoIdsIn(tables_on_entry[1]) \cap TornadoIdsIn(tables_on_entry[2])
    /\ MismatchedTornadoIds(tables_on_entry[1], tables_on_entry[2]) = {2}
    /\ tables_on_entry[1][StartRow(tables_on_entry[1],
           RowsOfTornado(tables_on_entry[1], 2))].nearest_secondary_id = None

\* C12: when the call raises ValueError, both tables still hold every row
\* they had on entry.
C12_NoPartialMutationOnRaise ==
    removal_raised =>
        <<early_tornado_to_storm_table, late_tornado_to_storm_table>> = tables_on_entry

\* --------------------------------------------------- storm interpolation
\* Elements of a set of integers in ascending order (numpy.unique).
RECURSIVE SortedSeq(_)
SortedSeq(S) ==
    IF S = {} THEN <<>> ELSE <<SetMin(S)>> \o SortedSeq(S \ {SetMin(S)})

RECURSIVE Sum(_)
Sum(list) == IF list = <<>> THEN 0 ELSE Head(list) + Sum(Tail(list))

RECURSIVE Flatten(_)
Flatten(lists) == IF lists = <<>> THEN <<>> ELSE Head(lists) \o Flatten(Tail(lists))

\* _find_secondary_start_end_times: first and last valid time of a secondary ID.
SecondaryStartTime(table, secondary_id) ==
    SetMin({table[i].valid_time : i \in {r \in DOMAIN table :
                                           table[r].secondary_id = secondary_id}})

SecondaryEndTime(table, secondary_id) ==
    SetMax({table[i].valid_time : i \in {r \in DOMAIN table :
                                           table[r].secondary_id = secondary_id}})

\* interp.interp_in_time, linear with extrapolation, for one query time:
\* the value on the line through the two input times that bracket the query
\* time, or through the first or last two when it is outside of them.  The
\* coordinates of the model make the division exact.
interp_in_time(input_values, sorted_input_times, query_time) ==
    LET n == Len(sorted_input_times)
        below == {a \in 1..(n - 1) : sorted_input_times[a] <= query_time}
        a == IF below = {} THEN 1 ELSE SetMax(below)
    IN  IF n = 1 THEN input_values[1]
        ELSE input_values[a]
               + ((input_values[a + 1] - input_values[a])
                     * (query_time - sorted_input_times[a]))
                 \div (sorted_input_times[a + 1] - sorted_input_times[a])

\* _interp_one_storm_in_time taking, of two time steps equally near the target
\* time, the later one.
InterpOneStormLaterStepOnTie(storm_rows, secondary_id, target_time) ==
    LET valid_times == SortedSeq({storm_rows[j].valid_time : j \in DOMAIN storm_rows})
        orig_indices == [i \in DOMAIN valid_times |->
                            PickIndices([j \in DOMAIN storm_rows |-> j],
                                        {j \in DOMAIN storm_rows :
                                            storm_rows[j].valid_time = valid_times[i]}, 1)]
        mean(list) == Sum(list) \div Len(list)
        x_centroids == [i \in DOMAIN valid_times |->
                           mean([n \in DOMAIN orig_indices[i] |->
                                    storm_rows[orig_indices[i][n]].centroid_x])]
        y_centroids == [i \in DOMAIN valid_times |->
                           mean([n \in DOMAIN orig_indices[i] |->
                                    storm_rows[orig_indices[i][n]].centroid_y])]
        x_vertices_by_time == [i \in DOMAIN valid_times |->
            Flatten([n \in DOMAIN orig_indices[i] |->
                LET row == storm_rows[orig_indices[i][n]]
                IN  [v \in DOMAIN row.vertices_x |->
                        (x_centroids[i] - row.centroid_x) + row.vertices_x[v]]])]
        y_vertices_by_time == [i \in DOMAIN valid_times |->
            Flatten([n \in DOMAIN orig_indices[i] |->
                LET row == storm_rows[orig_indices[i][n]]
                IN  [v \in DOMAIN row.vertices_y |->
                        (y_centroids[i] - row.centroid_y) + row.vertices_y[v]]])]
        interp_x == interp_in_time(x_centroids, valid_times, target_time)
        interp_y == interp_in_time(y_centroids, valid_times, target_time)
        time_diff(i) == Abs(valid_times[i] - target_time)
        nearest_time_index == ArgMaxRow(DOMAIN valid_times,
                                        [i \in DOMAIN valid_times |-> i - 2 * Len(valid_times) * time_diff(i)])
    IN  [v \in DOMAIN x_vertices_by_time[nearest_time_index] |->
            [secondary_id |-> secondary_id,
             vertex_x |-> interp_x - x_centroids[nearest_time_index]
                            + x_vertices_by_time[nearest_time_index][v],
             vertex_y |-> interp_y - y_centroids[nearest_time_index]
                            + y_vertices_by_time[nearest_time_index][v]]]

\* _interp_one_storm_in_time: vertices of the outline of one storm cell at the
\* target time.  storm_rows lists the cell's objects and the immediate
\* predecessors and successors of the cell.
_interp_one_storm_in_time(storm_rows, secondary_id, target_time) ==
    LET valid_times == SortedSeq({storm_rows[j].valid_time : j \in DOMAIN storm_rows})
        orig_indices == [i \in DOMAIN valid_times |->
                            PickIndices([j \in DOMAIN storm_rows |-> j],
                                        {j \in DOMAIN storm_rows :
                                            storm_rows[j].valid_time = valid_times[i]}, 1)]
        mean(list) == Sum(list) \div Len(list)
        x_centroids == [i \in DOMAIN valid_times |->
                           mean([n \in DOMAIN orig_indices[i] |->
                                    storm_rows[orig_indices[i][n]].centroid_x])]
        y_centroids == [i \in DOMAIN valid_times |->
                           mean([n \in DOMAIN orig_indices[i] |->
                                    storm_rows[orig_indices[i][n]].centroid_y])]
        x_vertices_by_time == [i \in DOMAIN valid_times |->
            Flatten([n \in DOMAIN orig_indices[i] |->
                LET row == storm_rows[orig_indices[i][n]]
                IN  [v \in DOMAIN row.vertices_x |->
                        (x_centroids[i] - row.centroid_x) + row.vertices_x[v]]])]
        y_vertices_by_time == [i \in DOMAIN valid_times |->
            Flatten([n \in DOMAIN orig_indices[i] |->
                LET row == storm_rows[orig_indices[i][n]]
                IN  [v \in DOMAIN row.vertices_y |->
                        (y_centroids[i] - row.centroid_y) + row.vertices_y[v]]])]
        interp_x == interp_in_time(x_centroids, valid_times, target_time)
        interp_y == interp_in_time(y_centroids, valid_times, target_time)
        time_diff(i) == Abs(valid_times[i] - target_time)
        nearest_time_index == ArgMinRow(DOMAIN valid_times,
                                        [i \in DOMAIN valid_times |-> time_diff(i)])
    IN  [v \in DOMAIN x_vertices_by_time[nearest_time_index] |->
            [secondary_id |-> secondary_id,
             vertex_x |-> interp_x - x_centroids[nearest_time_index]
                            + x_vertices_by_time[nearest_time_index][v],
             vertex_y |-> interp_y - y_centroids[nearest_time_index]
                            + y_vertices_by_time[nearest_time_index][v]]]

\* The loop body relying on the pre-filter of the table alone: no test of the
\* cell's start and end time against the window.
InterpOneCellWithoutWindowTest(sorted_storm_object_table, secondary_id, target_time, max_start_time, min_end_time) ==
    LET these_main_rows ==
            SortedSeq({r \in DOMAIN sorted_storm_object_table :
                          sorted_storm_object_table[r].secondary_id = secondary_id})
        these_rows ==
            SortedSeq(find_immediate_predecessors(sorted_storm_object_table,
                                                  these_main_rows[1]))
            \o these_main_rows
            \o SortedSeq(find_immediate_successors(
                             sorted_storm_object_table,
                             these_main_rows[Len(these_main_rows)]))
    IN  IF Len(these_rows) = 1 THEN <<>>
        ELSE _interp_one_storm_in_time(
                 [n \in DOMAIN these_rows |-> sorted_storm_object_table[these_rows[n]]],
                 secondary_id, target_time)

\* Loop body of _interp_storms_in_time for one secondary ID: the vertices of
\* the interpolated cell, or none if the cell is skipped.
InterpOneCell(sorted_storm_object_table, secondary_id, target_time, max_start_time, min_end_time) ==
    LET these_main_rows ==
            SortedSeq({r \in DOMAIN sorted_storm_object_table :
                          sorted_storm_object_table[r].secondary_id = secondary_id})
        these_rows ==
            SortedSeq(find_immediate_predecessors(sorted_storm_object_table,
                                                  these_main_rows[1]))
            \o these_main_rows
            \o SortedSeq(find_immediate_successors(
                             sorted_storm_object_table,
                             these_main_rows[Len(these_main_rows)]))
    IN  IF Len(these_rows) = 1 THEN <<>>
        ELSE IF sorted_storm_object_table[these_main_rows[1]].valid_time > max_start_time
        THEN <<>>
        ELSE IF sorted_storm_object_table[these_main_rows[Len(these_main_rows)]].valid_time
                   < min_end_time
        THEN <<>>
        ELSE _interp_one_storm_in_time(
                 [n \in DOMAIN these_rows |-> sorted_storm_object_table[these_rows[n]]],
                 secondary_id, target_time)

\* _interp_storms_in_time: the vertex table at the target time.  The storm
\* object table is ordered by valid time.
_interp_storms_in_time(table, target_time, max_time_before_start, max_time_after_end) ==
    LET max_start_time == target_time + max_time_before_start
        min_end_time == target_time - max_time_after_end
        sorted_storm_object_table ==
            SelectSeq(table, LAMBDA row :
                /\ SecondaryStartTime(table, row.secondary_id)
                      <= max_start_time + INTERP_SUBSET_SLACK
                /\ SecondaryEndTime(table, row.secondary_id)
                      >= min_end_time - INTERP_SUBSET_SLACK)
        unique_secondary_ids ==
            SortedSeq({sorted_storm_object_table[r].secondary_id :
                          r \in DOMAIN sorted_storm_object_table})
    IN  Flatten([j \in DOMAIN unique_secondary_ids |->
                    InterpOneCell(sorted_storm_object_table, unique_secondary_ids[j],
                                  target_time, max_start_time, min_end_time)])

\* ------------------------------------------------- linking tornado tracks
\* Rows in ascending order of key, ties in ascending order of row (argsort).
RECURSIVE SortRowsBy(_, _)
SortRowsBy(rows, key) ==
    IF rows = {} THEN <<>>
    ELSE LET first == CHOOSE r \in rows : \A q \in rows :
                          key[r] < key[q] \/ (key[r] = key[q] /\ r <= q)
         IN  <<first>> \o SortRowsBy(rows \ {first}, key)

\* _finish_tornado_linkage setting the assigned flag of the track segments it
\* links only, not of every segment of the tornado.
FinishTornadoLinkageFlagsLinkedRows(storm_table, tornado_to_storm_table, tornado_row, nearest_secondary_id, nearest_storm_time, nearest_distance) ==
    LET event_time == tornado_to_storm_table[tornado_row].unix_time_sec
        tornado_id == tornado_to_storm_table[tornado_row].tornado_id
        event_times == [k \in DOMAIN tornado_to_storm_table |->
                           tornado_to_storm_table[k].unix_time_sec]
        relevant_tornado_rows ==
            SortRowsBy({k \in DOMAIN tornado_to_storm_table :
                           /\ tornado_to_storm_table[k].tornado_id = tornado_id
                           /\ tornado_to_storm_table[k].linkage_distance = NaN},
                       event_times)
        relevant_tornado_time(n) == event_times[relevant_tornado_rows[n]]
        storm_cell_rows == {r \in DOMAIN storm_table :
                               storm_table[r].secondary_id = nearest_secondary_id}
        cell_time_diff(r) == Abs(storm_table[r].valid_time - nearest_storm_time)
        main_storm_object_row == ArgMinRow(storm_cell_rows,
                                           [r \in storm_cell_rows |-> cell_time_diff(r)])
        these_rows == SortedSeq(find_successors(storm_table, main_storm_object_row,
                                                0, SPLIT_STRING))
        these_times == {storm_table[these_rows[n]].valid_time : n \in DOMAIN these_rows}
        first_good_time == SetMin(these_times \cup {event_time})
        last_good_time == SetMax(these_times \cup {event_time})
        early_subrows == {n \in DOMAIN relevant_tornado_rows :
                             relevant_tornado_time(n) <= first_good_time}
        first_subrow == IF early_subrows = {} THEN 1 ELSE SetMax(early_subrows)
        late_subrows == {n \in DOMAIN relevant_tornado_rows :
                            relevant_tornado_time(n) >= last_good_time}
        last_subrow == IF late_subrows = {} THEN Len(relevant_tornado_rows)
                       ELSE SetMin(late_subrows)
        linked_rows == {relevant_tornado_rows[n] : n \in first_subrow..last_subrow}
        storm_object_of(k) ==
            LET diff(n) == Abs(storm_table[these_rows[n]].valid_time - event_times[k])
            IN  these_rows[ArgMinRow(DOMAIN these_rows,
                                     [n \in DOMAIN these_rows |-> diff(n)])]
    IN  [k \in DOMAIN tornado_to_storm_table |->
            LET row == tornado_to_storm_table[k]
                flagged == IF k \in linked_rows
                           THEN [row EXCEPT !.tornado_assigned_flag = TRUE] ELSE row
            IN  IF k \in linked_rows
                THEN [flagged EXCEPT
                         !.linkage_distance = nearest_distance,
                         !.nearest_storm_time = row.unix_time_sec,
                         !.nearest_secondary_id = storm_table[storm_object_of(k)].secondary_id]
                ELSE flagged]

\* _finish_tornado_linkage linking only the unlinked track segments whose times
\* are from the first good time to the last good time.
FinishTornadoLinkageWithinSpanOnly(storm_table, tornado_to_storm_table, tornado_row, nearest_secondary_id, nearest_storm_time, nearest_distance) ==
    LET event_time == tornado_to_storm_table[tornado_row].unix_time_sec
        tornado_id == tornado_to_storm_table[tornado_row].tornado_id
        event_times == [k \in DOMAIN tornado_to_storm_table |->
                           tornado_to_storm_table[k].unix_time_sec]
        relevant_tornado_rows ==
            SortRowsBy({k \in DOMAIN tornado_to_storm_table :
                           /\ tornado_to_storm_table[k].tornado_id = tornado_id
                           /\ tornado_to_storm_table[k].linkage_distance = NaN},
                       event_times)
        relevant_tornado_time(n) == event_times[relevant_tornado_rows[n]]
        storm_cell_rows == {r \in DOMAIN storm_table :
                               storm_table[r].secondary_id = nearest_secondary_id}
        cell_time_diff(r) == Abs(storm_table[r].valid_time - nearest_storm_time)
        main_storm_object_row == ArgMinRow(storm_cell_rows,
                                           [r \in storm_cell_rows |-> cell_time_diff(r)])
        these_rows == SortedSeq(find_successors(storm_table, main_storm_object_row,
                                                0, SPLIT_STRING))
        these_times == {storm_table[these_rows[n]].valid_time : n \in DOMAIN these_rows}
        first_good_time == SetMin(these_times \cup {event_time})
        last_good_time == SetMax(these_times \cup {event_time})
        early_subrows == {n \in DOMAIN relevant_tornado_rows :
                             relevant_tornado_time(n) <= first_good_time}
        first_subrow == IF early_subrows = {} THEN 1 ELSE SetMax(early_subrows)
        late_subrows == {n \in DOMAIN relevant_tornado_rows :
                            relevant_tornado_time(n) >= last_good_time}
        last_subrow == IF late_subrows = {} THEN Len(relevant_tornado_rows)
                       ELSE SetMin(late_subrows)
        linked_rows == {relevant_tornado_rows[n] :
                           n \in {m \in DOMAIN relevant_tornado_rows :
                                     /\ relevant_tornado_time(m) >= first_good_time
                                     /\ relevant_tornado_time(m) <= last_good_time}}
        storm_object_of(k) ==
            LET diff(n) == Abs(storm_table[these_rows[n]].valid_time - event_times[k])
            IN  these_rows[ArgMinRow(DOMAIN these_rows,
                                     [n \in DOMAIN these_rows |-> diff(n)])]
    IN  [k \in DOMAIN tornado_to_storm_table |->
            LET row == tornado_to_storm_table[k]
                flagged == IF row.tornado_id = tornado_id
                           THEN [row EXCEPT !.tornado_assigned_flag = TRUE] ELSE row
            IN  IF k \in linked_rows
                THEN [flagged EXCEPT
                         !.linkage_distance = nearest_distance,
                         !.nearest_storm_time = row.unix_time_sec,
                         !.nearest_secondary_id = storm_table[storm_object_of(k)].secondary_id]
                ELSE flagged]

\* _finish_tornado_linkage taking every track segment of the tornado as
\* relevant, whether or not it has a linkage distance.
FinishTornadoLinkageOfAllSegments(storm_table, tornado_to_storm_table, tornado_row, nearest_secondary_id, nearest_storm_time, nearest_distance) ==
    LET event_time == tornado_to_storm_table[tornado_row].unix_time_sec
        tornado_id == tornado_to_storm_table[tornado_row].tornado_id
        event_times == [k \in DOMAIN tornado_to_storm_table |->
                           tornado_to_storm_table[k].unix_time_sec]
        relevant_tornado_rows ==
            SortRowsBy({k \in DOMAIN tornado_to_storm_table :
                           tornado_to_storm_table[k].tornado_id = tornado_id},
                       event_times)
        relevant_tornado_time(n) == event_times[relevant_tornado_rows[n]]
        storm_cell_rows == {r \in DOMAIN storm_table :
                               storm_table[r].secondary_id = nearest_secondary_id}
        cell_time_diff(r) == Abs(storm_table[r].valid_time - nearest_storm_time)
        main_storm_object_row == ArgMinRow(storm_cell_rows,
                                           [r \in storm_cell_rows |-> cell_time_diff(r)])
        these_rows == SortedSeq(find_successors(storm_table, main_storm_object_row,
                                                0, SPLIT_STRING))
        these_times == {storm_table[these_rows[n]].valid_time : n \in DOMAIN these_rows}
        first_good_time == SetMin(these_times \cup {event_time})
        last_good_time == SetMax(these_times \cup {event_time})
        early_subrows == {n \in DOMAIN relevant_tornado_rows :
                             relevant_tornado_time(n) <= first_good_time}
        first_subrow == IF early_subrows = {} THEN 1 ELSE SetMax(early_subrows)
        late_subrows == {n \in DOMAIN relevant_tornado_rows :
                            relevant_tornado_time(n) >= last_good_time}
        last_subrow == IF late_subrows = {} THEN Len(relevant_tornado_rows)
                       ELSE SetMin(late_subrows)
        linked_rows == {relevant_tornado_rows[n] : n \in first_subrow..last_subrow}
        storm_object_of(k) ==
            LET diff(n) == Abs(storm_table[these_rows[n]].valid_time - event_times[k])
            IN  these_rows[ArgMinRow(DOMAIN these_rows,
                                     [n \in DOMAIN these_rows |-> diff(n)])]
    IN  [k \in DOMAIN tornado_to_storm_table |->
            LET row == tornado_to_storm_table[k]
                flagged == IF row.tornado_id = tornado_id
                           THEN [row EXCEPT !.tornado_assigned_flag = TRUE] ELSE row
            IN  IF k \in linked_rows
                THEN [flagged EXCEPT
                         !.linkage_distance = nearest_distance,
                         !.nearest_storm_time = row.unix_time_sec,
                         !.nearest_secondary_id = storm_table[storm_object_of(k)].secondary_id]
                ELSE flagged]

\* _finish_tornado_linkage: links the unlinked track segments of the tornado
\* that fall in the lifetime of the storm's non-splitting successors, all with
\* the distance found for the segment at tornado_row.
_finish_tornado_linkage(storm_table, tornado_to_storm_table, tornado_row, nearest_secondary_id, nearest_storm_time, nearest_distance) ==
    LET event_time == tornado_to_storm_table[tornado_row].unix_time_sec
        tornado_id == tornado_to_storm_table[tornado_row].tornado_id
        event_times == [k \in DOMAIN tornado_to_storm_table |->
                           tornado_to_storm_table[k].unix_time_sec]
        relevant_tornado_rows ==
            SortRowsBy({k \in DOMAIN tornado_to_storm_table :
                           /\ tornado_to_storm_table[k].tornado_id = tornado_id
                           /\ tornado_to_storm_table[k].linkage_distance = NaN},
                       event_times)
        relevant_tornado_time(n) == event_times[relevant_tornado_rows[n]]
        storm_cell_rows == {r \in DOMAIN storm_table :
                               storm_table[r].secondary_id = nearest_secondary_id}
        cell_time_diff(r) == Abs(storm_table[r].valid_time - nearest_storm_time)
        main_storm_object_row == ArgMinRow(storm_cell_rows,
                                           [r \in storm_cell_rows |-> cell_time_diff(r)])
        these_rows == SortedSeq(find_successors(storm_table, main_storm_object_row,
                                                0, SPLIT_STRING))
        these_times == {storm_table[these_rows[n]].valid_time : n \in DOMAIN these_rows}
        first_good_time == SetMin(these_times \cup {event_time})
        last_good_time == SetMax(these_times \cup {event_time})
        early_subrows == {n \in DOMAIN relevant_tornado_rows :
                             relevant_tornado_time(n) <= first_good_time}
        first_subrow == IF early_subrows = {} THEN 1 ELSE SetMax(early_subrows)
        late_subrows == {n \in DOMAIN relevant_tornado_rows :
                            relevant_tornado_time(n) >= last_good_time}
        last_subrow == IF late_subrows = {} THEN Len(relevant_tornado_rows)
                       ELSE SetMin(late_subrows)
        linked_rows == {relevant_tornado_rows[n] : n \in first_subrow..last_subrow}
        storm_object_of(k) ==
            LET diff(n) == Abs(storm_table[these_rows[n]].valid_time - event_times[k])
            IN  these_rows[ArgMinRow(DOMAIN these_rows,
                                     [n \in DOMAIN these_rows |-> diff(n)])]
    IN  [k \in DOMAIN tornado_to_storm_table |->
            LET row == tornado_to_storm_table[k]
                flagged == IF row.tornado_id = tornado_id
                           THEN [row EXCEPT !.tornado_assigned_flag = TRUE] ELSE row
            IN  IF k \in linked_rows
                THEN [flagged EXCEPT
                         !.linkage_distance = nearest_distance,
                         !.nearest_storm_time = row.unix_time_sec,
                         !.nearest_secondary_id = storm_table[storm_object_of(k)].secondary_id]
                ELSE flagged]

\* _link_tornado_to_new_storm handing every interpolated storm to the matcher,
\* not only the storms found by find_successors.
LinkTornadoToAnyStorm(storm_table, tornado_to_storm_table, tornado_row, args) ==
    LET event_time == tornado_to_storm_table[tornado_row].unix_time_sec
        tornado_rows == {k \in DOMAIN tornado_to_storm_table :
                            /\ tornado_to_storm_table[k].tornado_id
                                  = tornado_to_storm_table[tornado_row].tornado_id
                            /\ tornado_to_storm_table[k].nearest_secondary_id # None}
        tornado_time(k) == tornado_to_storm_table[k].unix_time_sec
        last_assigned_event_row == ArgMaxRow(tornado_rows,
                                             [k \in tornado_rows |-> tornado_time(k)])
        last_assigned_sec_id ==
            tornado_to_storm_table[last_assigned_event_row].nearest_secondary_id
        storm_time(r) == storm_table[r].valid_time
        last_assigned_object_row ==
            ArgMaxRow({r \in DOMAIN storm_table :
                          storm_table[r].secondary_id = last_assigned_sec_id},
                      [r \in DOMAIN storm_table |-> storm_time(r)])
        relevant_object_rows == find_successors(storm_table, last_assigned_object_row,
                                                NoLimit(storm_table), ANY_CHANGE_STRING)
        relevant_sec_ids == {storm_table[r].secondary_id : r \in relevant_object_rows}
        interp_table ==
            SelectSeq(_interp_storms_in_time(storm_table, event_time,
                                             args.max_time_before_storm_start_sec,
                                             args.max_time_after_storm_end_sec),
                      LAMBDA vertex : TRUE)
        nearest == _find_nearest_storms_one_time(
                       interp_table, <<tornado_to_storm_table[tornado_row].x_coord>>,
                       <<tornado_to_storm_table[tornado_row].y_coord>>,
                       LARGE_DISTANCE_METRES, DEFAULT_MAX_POLYGON_ATTEMPT_DISTANCE)
    IN  IF nearest[1][1] = None THEN tornado_to_storm_table
        ELSE _finish_tornado_linkage(storm_table, tornado_to_storm_table, tornado_row,
                                     nearest[1][1], event_time, nearest[1][2])

\* _link_tornado_to_new_storm: links one track segment of a tornado whose
\* earlier segments are linked to a successor of their storm, at any distance.
_link_tornado_to_new_storm(storm_table, tornado_to_storm_table, tornado_row, args) ==
    LET event_time == tornado_to_storm_table[tornado_row].unix_time_sec
        tornado_rows == {k \in DOMAIN tornado_to_storm_table :
                            /\ tornado_to_storm_table[k].tornado_id
                                  = tornado_to_storm_table[tornado_row].tornado_id
                            /\ tornado_to_storm_table[k].nearest_secondary_id # None}
        tornado_time(k) == tornado_to_storm_table[k].unix_time_sec
        last_assigned_event_row == ArgMaxRow(tornado_rows,
                                             [k \in tornado_rows |-> tornado_time(k)])
        last_assigned_sec_id ==
            tornado_to_storm_table[last_assigned_event_row].nearest_secondary_id
        storm_time(r) == storm_table[r].valid_time
        last_assigned_object_row ==
            ArgMaxRow({r \in DOMAIN storm_table :
                          storm_table[r].secondary_id = last_assigned_sec_id},
                      [r \in DOMAIN storm_table |-> storm_time(r)])
        relevant_object_rows == find_successors(storm_table, last_assigned_object_row,
                                                NoLimit(storm_table), ANY_CHANGE_STRING)
        relevant_sec_ids == {storm_table[r].secondary_id : r \in relevant_object_rows}
        interp_table ==
            SelectSeq(_interp_storms_in_time(storm_table, event_time,
                                             args.max_time_before_storm_start_sec,
                                             args.max_time_after_storm_end_sec),
                      LAMBDA vertex : vertex.secondary_id \in relevant_sec_ids)
        nearest == _find_nearest_storms_one_time(
                       interp_table, <<tornado_to_storm_table[tornado_row].x_coord>>,
                       <<tornado_to_storm_table[tornado_row].y_coord>>,
                       LARGE_DISTANCE_METRES, DEFAULT_MAX_POLYGON_ATTEMPT_DISTANCE)
    IN  IF nearest[1][1] = None THEN tornado_to_storm_table
        ELSE _finish_tornado_linkage(storm_table, tornado_to_storm_table, tornado_row,
                                     nearest[1][1], event_time, nearest[1][2])

\* --------------------------------------------------- _find_nearest_storms
\* Interpolation time of each event: its time rounded to the nearest multiple
\* of the interpolation interval.
InterpTimes(events, args) ==
    [k \in DOMAIN events |->
        RoundToNearest(events[k].unix_time_sec, args.interp_time_interval_sec)]

UniqueInterpTimes(events, args) ==
    SortedSeq(Range(InterpTimes(events, args)))

\* The calls of _finish_tornado_linkage in the first pass, for the events
\* these_event_rows[j], j = n, n + 1, ...
RECURSIVE FinishLoop(_, _, _, _, _, _)
FinishLoop(storm_table, events, these_event_rows, nearest, interp_time, n) ==
    IF n > Len(these_event_rows) THEN events
    ELSE FinishLoop(storm_table,
                    IF nearest[n][1] = None THEN events
                    ELSE _finish_tornado_linkage(storm_table, events, these_event_rows[n],
                                                 nearest[n][1], interp_time, nearest[n][2]),
                    these_event_rows, nearest, interp_time, n + 1)

\* these_event_rows of the i-th iteration of the first loop.
FirstPassEventRows(events, args, i) ==
    SortedSeq({k \in DOMAIN events :
                  /\ InterpTimes(events, args)[k] = UniqueInterpTimes(events, args)[i]
                  /\ args.event_type_string = TORNADO_EVENT_STRING
                        => /\ events[k].nearest_secondary_id = None
                           /\ ~events[k].tornado_assigned_flag})

\* What _find_nearest_storms_one_time returns in the i-th iteration of the
\* first loop, for the events in these_event_rows.
FirstPassNearest(storm_table, events, these_event_rows, args, i) ==
    _find_nearest_storms_one_time(
        _interp_storms_in_time(storm_table, UniqueInterpTimes(events, args)[i],
                               args.max_time_before_storm_start_sec,
                               args.max_time_after_storm_end_sec),
        [n \in DOMAIN these_event_rows |-> events[these_event_rows[n]].x_coord],
        [n \in DOMAIN these_event_rows |-> events[these_event_rows[n]].y_coord],
        args.max_link_distance_metres, DEFAULT_MAX_POLYGON_ATTEMPT_DISTANCE)

\* The calls of _finish_tornado_linkage that FinishLoop makes, in order, each
\* with its arguments, the table passed and the table returned.
RECURSIVE FinishCalls(_, _, _, _, _, _)
FinishCalls(storm_table, events, these_event_rows, nearest, interp_time, n) ==
    IF n > Len(these_event_rows) THEN <<>>
    ELSE IF nearest[n][1] = None
    THEN FinishCalls(storm_table, events, these_event_rows, nearest, interp_time, n + 1)
    ELSE <<[function |-> "_finish_tornado_linkage",
            tornado_row |-> these_event_rows[n],
            nearest_secondary_id |-> nearest[n][1],
            nearest_storm_time |-> interp_time,
            nearest_distance |-> nearest[n][2],
            before |-> events,
            after |-> _finish_tornado_linkage(storm_table, events, these_event_rows[n],
                                              nearest[n][1], interp_time, nearest[n][2])]>>
         \o FinishCalls(storm_table,
                        _finish_tornado_linkage(storm_table, events, these_event_rows[n],
                                                nearest[n][1], interp_time, nearest[n][2]),
                        these_event_rows, nearest, interp_time, n + 1)

\* The first loop recording the interpolation time as nearest storm time for
\* every event it tries, linked or not.
FirstPassBodyTimeOfEveryEvent(storm_table, events, args, i) ==
    LET interp_times == InterpTimes(events, args)
        this_interp_time == UniqueInterpTimes(events, args)[i]
        is_tornado == args.event_type_string = TORNADO_EVENT_STRING
        these_event_rows ==
            SortedSeq({k \in DOMAIN events :
                          /\ interp_times[k] = this_interp_time
                          /\ is_tornado => /\ events[k].nearest_secondary_id = None
                                           /\ ~events[k].tornado_assigned_flag})
        this_interp_vertex_table ==
            _interp_storms_in_time(storm_table, this_interp_time,
                                   args.max_time_before_storm_start_sec,
                                   args.max_time_after_storm_end_sec)
        nearest == _find_nearest_storms_one_time(
                       this_interp_vertex_table,
                       [n \in DOMAIN these_event_rows |-> events[these_event_rows[n]].x_coord],
                       [n \in DOMAIN these_event_rows |-> events[these_event_rows[n]].y_coord],
                       args.max_link_distance_metres, DEFAULT_MAX_POLYGON_ATTEMPT_DISTANCE)
        index_of(k) == CHOOSE n \in DOMAIN these_event_rows : these_event_rows[n] = k
    IN  IF these_event_rows = <<>> THEN events
        ELSE IF ~is_tornado
        THEN [k \in DOMAIN events |->
                 IF k \notin Range(these_event_rows) THEN events[k]
                 ELSE IF nearest[index_of(k)][1] = None
                 THEN [events[k] EXCEPT !.linkage_distance = nearest[index_of(k)][2],
                                        !.nearest_storm_time = this_interp_time]
                 ELSE [events[k] EXCEPT !.linkage_distance = nearest[index_of(k)][2],
                                        !.nearest_secondary_id = nearest[index_of(k)][1],
                                        !.nearest_storm_time = this_interp_time]]
        ELSE FinishLoop(storm_table, events, these_event_rows, nearest,
                        this_interp_time, 1)

\* One iteration of the first loop of _find_nearest_storms, over the events
\* of the i-th unique interpolation time.
FirstPassBody(storm_table, events, args, i) ==
    LET this_interp_time == UniqueInterpTimes(events, args)[i]
        is_tornado == args.event_type_string = TORNADO_EVENT_STRING
        these_event_rows == FirstPassEventRows(events, args, i)
        nearest == FirstPassNearest(storm_table, events, these_event_rows, args, i)
        index_of(k) == CHOOSE n \in DOMAIN these_event_rows : these_event_rows[n] = k
    IN  IF these_event_rows = <<>> THEN events
        ELSE IF ~is_tornado
        THEN [k \in DOMAIN events |->
                 IF k \notin Range(these_event_rows) THEN events[k]
                 ELSE IF nearest[index_of(k)][1] = None
                 THEN [events[k] EXCEPT !.linkage_distance = nearest[index_of(k)][2]]
                 ELSE [events[k] EXCEPT !.linkage_distance = nearest[index_of(k)][2],
                                        !.nearest_secondary_id = nearest[index_of(k)][1],
                                        !.nearest_storm_time = this_interp_time]]
        ELSE FinishLoop(storm_table, events, these_event_rows, nearest,
                        this_interp_time, 1)

\* _link_tornado_to_new_storm raises ValueError (numpy.argmax of an empty
\* array) if no track segment of the tornado is linked.
LinkToNewStormRaises(tornado_to_storm_table, tornado_row) ==
    \A k \in DOMAIN tornado_to_storm_table :
        tornado_to_storm_table[k].tornado_id = tornado_to_storm_table[tornado_row].tornado_id
        => tornado_to_storm_table[k].nearest_secondary_id = None

\* Some call of _link_tornado_to_new_storm for the events these_event_rows[j],
\* j = n, n + 1, ... raises.
RECURSIVE NewStormLoopRaises(_, _, _, _, _)
NewStormLoopRaises(storm_table, events, these_event_rows, args, n) ==
    IF n > Len(these_event_rows) THEN FALSE
    ELSE IF LinkToNewStormRaises(events, these_event_rows[n]) THEN TRUE
    ELSE NewStormLoopRaises(storm_table,
                            _link_tornado_to_new_storm(storm_table, events,
                                                       these_event_rows[n], args),
                            these_event_rows, args, n + 1)

RECURSIVE NewStormLoop(_, _, _, _, _)
NewStormLoop(storm_table, events, these_event_rows, args, n) ==
    IF n > Len(these_event_rows) THEN events
    ELSE NewStormLoop(storm_table,
                      _link_tornado_to_new_storm(storm_table, events,
                                                 these_event_rows[n], args),
                      these_event_rows, args, n + 1)

\* these_event_rows of the i-th iteration of the second loop (tornadoes only):
\* the still unlinked track segments of the i-th unique interpolation time
\* whose tornado has the assigned flag.
SecondPassEventRows(events, args, i) ==
    SortedSeq({k \in DOMAIN events :
                  /\ InterpTimes(events, args)[k] = UniqueInterpTimes(events, args)[i]
                  /\ events[k].nearest_secondary_id = None
                  /\ events[k].tornado_assigned_flag})

\* The calls of _link_tornado_to_new_storm that NewStormLoop makes, in order,
\* up to the first that raises, each with the table passed and the table
\* returned.
RECURSIVE NewStormCalls(_, _, _, _, _)
NewStormCalls(storm_table, events, these_event_rows, args, n) ==
    IF n > Len(these_event_rows) THEN <<>>
    ELSE IF LinkToNewStormRaises(events, these_event_rows[n])
    THEN <<[function |-> "_link_tornado_to_new_storm", tornado_row |-> these_event_rows[n],
            raised |-> TRUE, before |-> events, after |-> events]>>
    ELSE <<[function |-> "_link_tornado_to_new_storm", tornado_row |-> these_event_rows[n],
            raised |-> FALSE, before |-> events,
            after |-> _link_tornado_to_new_storm(storm_table, events, these_event_rows[n],
                                                 args)]>>
         \o NewStormCalls(storm_table,
                          _link_tornado_to_new_storm(storm_table, events,
                                                     these_event_rows[n], args),
                          these_event_rows, args, n + 1)

\* One iteration of the second loop.
SecondPassBody(storm_table, events, args, i) ==
    NewStormLoop(storm_table, events, SecondPassEventRows(events, args, i), args, 1)

\* The iteration of the second loop raises.
SecondPassRaises(storm_table, events, args, i) ==
    NewStormLoopRaises(storm_table, events, SecondPassEventRows(events, args, i), args, 1)

\* ------------------------------------------------- linking specification
\* Storm objects of a lineage graph with their geometry: cells one behind the
\* other along x, each moving in +x, outlines of the same rectangular shape.
StormObjectXY(table, r) ==
    LET row == table[r]
        k == row.valid_time - SecondaryStartTime(table, row.secondary_id)
        centroid_x == 2 * (row.secondary_id - 1) + 2 * k
    IN  [secondary_id |-> row.secondary_id,
         valid_time |-> row.valid_time,
         prev_secondary_ids |-> row.prev_secondary_ids,
         next_secondary_ids |-> row.next_secondary_ids,
         centroid_x |-> centroid_x,
         centroid_y |-> 1,
         vertices_x |-> <<centroid_x - 1, centroid_x + 1, centroid_x + 1, centroid_x - 1>>,
         vertices_y |-> <<0, 0, 2, 2>>]

StormObjectTablesXY ==
    {[r \in DOMAIN BuildStormObjectTable(prev) |->
         StormObjectXY(BuildStormObjectTable(prev), r)] : prev \in PrevChoices}

EventTimes == 0..(ObjectsPerCell + 2)

\* Event positions along x: on the grid points that storm centroids take.
EventXs == {x \in 0..GridX : x % 2 = 0}

\* An event as _find_nearest_storms first sets it up: not linked.
NewEvent(type, time, x, tornado_id) ==
    IF type = TORNADO_EVENT_STRING
    THEN [unix_time_sec |-> time, x_coord |-> x, y_coord |-> 1,
          tornado_id |-> tornado_id, nearest_secondary_id |-> None,
          nearest_storm_time |-> -1, linkage_distance |-> NaN,
          tornado_assigned_flag |-> FALSE]
    ELSE [unix_time_sec |-> time, x_coord |-> x, y_coord |-> 1,
          nearest_secondary_id |-> None, nearest_storm_time |-> -1,
          linkage_distance |-> NaN]

\* Event tables of 1..MaxEvents rows in order of time.  Track segments of
\* one tornado have different times, and the first row is of tornado 1.
RECURSIVE NewEventTables(_, _)
NewEventTables(type, n) ==
    LET ids == IF type = TORNADO_EVENT_STRING THEN {1, 2} ELSE {0}
        rows == {NewEvent(type, t, x, id) : t \in EventTimes, x \in EventXs, id \in ids}
    IN  IF n = 1 THEN {<<row>> : row \in {e \in rows : type = TORNADO_EVENT_STRING
                                                           => e.tornado_id = 1}}
        ELSE UNION {
                 {Append(events, row) :
                     row \in {e \in rows :
                        /\ \A k \in DOMAIN events :
                              events[k].unix_time_sec <= e.unix_time_sec
                        /\ type = TORNADO_EVENT_STRING =>
                              \A k \in DOMAIN events :
                                  events[k].tornado_id = e.tornado_id
                                     => events[k].unix_time_sec < e.unix_time_sec}} :
                 events \in NewEventTables(type, n - 1)}

LinkingInit ==
    /\ storm_object_table_xy \in StormObjectTablesXY
    /\ \E type \in {WIND_EVENT_STRING, TORNADOGENESIS_EVENT_STRING, TORNADO_EVENT_STRING} :
          /\ event_table \in UNION {NewEventTables(type, n) : n \in 1..MaxEvents}
          /\ linking_args \in
                [max_link_distance_metres : 1..MaxLinkDistance,
                 interp_time_interval_sec :
                     IF type = WIND_EVENT_STRING THEN InterpTimeIntervals ELSE {1},
                 max_time_before_storm_start_sec : {DEFAULT_MAX_TIME_BEFORE_STORM_SEC},
                 max_time_after_storm_end_sec : {DEFAULT_MAX_TIME_AFTER_STORM_SEC},
                 event_type_string : {type}]
    /\ linking_pc = "first_pass"
    /\ linking_i = 1
    /\ linking_calls = <<>>
    /\ finished_tornado_ids = {}
    /\ LineageIdle /\ MatcherIdle /\ RedundantIdle /\ InterpIdle /\ FileIdle /\ ProjectionIdle /\ StitchIdle

\* The call of _find_nearest_storms_one_time in the i-th iteration of the
\* first loop, if the iteration gets that far.
MatcherCalls(events, args, i) ==
    IF FirstPassEventRows(events, args, i) = <<>> THEN <<>>
    ELSE <<[function |-> "_find_nearest_storms_one_time",
            event_rows |-> FirstPassEventRows(events, args, i),
            finished_before |-> finished_tornado_ids,
            before |-> events, after |-> events]>>

\* Tornadoes of the calls of _finish_tornado_linkage among `calls`.
TornadoIdsFinished(calls) ==
    {calls[n].before[calls[n].tornado_row].tornado_id :
        n \in {m \in DOMAIN calls : calls[m].function = "_finish_tornado_linkage"}}

\* _find_nearest_storms, first loop: one unique interpolation time.
FirstPassIteration ==
    /\ linking_pc = "first_pass"
    /\ event_table' = FirstPassBody(storm_object_table_xy, event_table, linking_args,
                                    linking_i)
    /\ \E calls \in {IF linking_args.event_type_string = TORNADO_EVENT_STRING
                      THEN FinishCalls(storm_object_table_xy, event_table,
                                       FirstPassEventRows(event_table, linking_args,
                                                          linking_i),
                                       FirstPassNearest(storm_object_table_xy, event_table,
                                                        FirstPassEventRows(event_table,
                                                                           linking_args,
                                                                           linking_i),
                                                        linking_args, linking_i),
                                       UniqueInterpTimes(event_table, linking_args)[linking_i],
                                       1)
                      ELSE <<>>} :
          /\ linking_calls' = MatcherCalls(event_table, linking_args, linking_i) \o calls
          /\ finished_tornado_ids' = finished_tornado_ids \cup TornadoIdsFinished(calls)
    /\ IF linking_i < Len(UniqueInterpTimes(event_table, linking_args))
       THEN linking_i' = linking_i + 1 /\ linking_pc' = linking_pc
       ELSE /\ linking_i' = 1
            /\ linking_pc' = IF linking_args.event_type_string = TORNADO_EVENT_STRING
                             THEN "second_pass" ELSE "returned"
    /\ UNCHANGED <<storm_object_table_xy, linking_args>>
    /\ UNCHANGED not_linking_vars

\* _find_nearest_storms, second loop: one unique interpolation time.
SecondPassIteration ==
    /\ linking_pc = "second_pass"
    /\ linking_calls' = NewStormCalls(storm_object_table_xy, event_table,
                                      SecondPassEventRows(event_table, linking_args,
                                                          linking_i),
                                      linking_args, 1)
    /\ IF SecondPassRaises(storm_object_table_xy, event_table, linking_args, linking_i)
       THEN /\ linking_pc' = "raised"
            /\ UNCHANGED <<event_table, linking_i>>
       ELSE /\ event_table' = SecondPassBody(storm_object_table_xy, event_table,
                                             linking_args, linking_i)
            /\ IF linking_i < Len(UniqueInterpTimes(event_table, linking_args))
               THEN linking_i' = linking_i + 1 /\ linking_pc' = linking_pc
               ELSE linking_i' = 1 /\ linking_pc' = "returned"
    /\ UNCHANGED <<storm_object_table_xy, linking_args, finished_tornado_ids>>
    /\ UNCHANGED not_linking_vars

LinkingNext ==
    \/ FirstPassIteration
    \/ SecondPassIteration

SpecLinking == LinkingInit /\ [][LinkingNext]_vars

\* Positions of track segments along x: in the first outline of the first
\* cell, or in the last outline of the last cell.
TrackXs == {0, GridX}

\* Times of track segments: from the first storm object on.
TrackTimes == 1..(ObjectsPerCell + 2)

\* Tracks of one tornado: up to MaxTrackSegments segments at increasing times.
TrackTimeSets == {T \in SUBSET TrackTimes : T # {} /\ Cardinality(T) <= MaxTrackSegments}

\* Tables of track segments in order of time: one track of tornado 1, or a
\* track of two segments of tornado 1 and a segment of tornado 2 at the time
\* of the second.
TrackTables ==
    LET segment(id, t, x) == NewEvent(TORNADO_EVENT_STRING, t, x, id)
        one_track ==
            {[n \in 1..Cardinality(T) |-> segment(1, SortedSeq(T)[n], xs[n])] :
                T \in TrackTimeSets, xs \in [1..MaxTrackSegments -> TrackXs]}
        two_tracks ==
            {<<segment(1, SortedSeq(T)[1], xs[1]), segment(1, SortedSeq(T)[2], xs[2]),
               segment(2, SortedSeq(T)[2], xs[3])>> :
                T \in {U \in TrackTimeSets : Cardinality(U) = 2},
                xs \in [1..MaxTrackSegments -> TrackXs]}
    IN  one_track \cup two_tracks

\* _find_nearest_storms for tornado track segments only, also with an
\* interpolation interval of two time steps.
TornadoLinkingInit ==
    /\ storm_object_table_xy \in StormObjectTablesXY
    /\ event_table \in TrackTables
    /\ linking_args \in
          [max_link_distance_metres : {1},
           interp_time_interval_sec : InterpTimeIntervals,
           max_time_before_storm_start_sec : {DEFAULT_MAX_TIME_BEFORE_STORM_SEC},
           max_time_after_storm_end_sec : {DEFAULT_MAX_TIME_AFTER_STORM_SEC},
           event_type_string : {TORNADO_EVENT_STRING}]
    /\ linking_pc = "first_pass"
    /\ linking_i = 1
    /\ linking_calls = <<>>
    /\ finished_tornado_ids = {}
    /\ LineageIdle /\ MatcherIdle /\ RedundantIdle /\ InterpIdle /\ FileIdle /\ ProjectionIdle /\ StitchIdle

SpecTornadoLinking == TornadoLinkingInit /\ [][LinkingNext]_vars

\* ------------------------------------------------------ linking properties
\* C4: in the event table that _find_nearest_storms returns, whatever the
\* event type, every event with a secondary ID has a recorded linkage distance
\* of at most max_link_distance_metres (distances are squared in the model).
C4_LinkedWithinMaxDistance ==
    linking_pc = "returned" =>
        \A k \in DOMAIN event_table :
            event_table[k].nearest_secondary_id # None =>
                /\ event_table[k].linkage_distance # NaN
                /\ event_table[k].linkage_distance
                      <= linking_args.max_link_distance_metres
                            * linking_args.max_link_distance_metres

\* In the row, the secondary ID is None, the distance NaN and the nearest storm
\* time -1, or none of the three.
LinkageFieldsAgree(row) ==
    /\ row.nearest_secondary_id = None <=> row.linkage_distance = NaN
    /\ row.linkage_distance = NaN <=> row.nearest_storm_time = -1

\* C17: _find_nearest_storms does not raise, also when events have no storm
\* in range, and in the table it returns every event has a None secondary ID
\* if and only if its linkage distance is NaN if and only if its nearest storm
\* time is -1.
C17_NoMatchIsAValue ==
    /\ linking_pc # "raised"
    /\ linking_pc = "returned" =>
          \A k \in DOMAIN event_table : LinkageFieldsAgree(event_table[k])

\* _find_nearest_storms has returned a table with an event that found no storm
\* and an event that is linked.
C17_Witness ==
    /\ linking_pc = "returned"
    /\ \E k \in DOMAIN event_table :
          /\ event_table[k].nearest_secondary_id = None
          /\ event_table[k].linkage_distance = NaN
          /\ event_table[k].nearest_storm_time = -1
    /\ \E k \in DOMAIN event_table : event_table[k].nearest_secondary_id # None

\* The vertex table with the same storms and vertices, the storms listed in
\* the order `ids`.
VertexTableInOrder(vertex_table, ids) ==
    Flatten([n \in DOMAIN ids |->
                SelectSeq(vertex_table, LAMBDA vertex : vertex.secondary_id = ids[n])])

\* Every order in which the storms of the vertex table can be listed.
StormOrders(vertex_table) ==
    {ids \in [1..Cardinality(StormIdsOf(vertex_table)) -> StormIdsOf(vertex_table)] :
        \A m, n \in DOMAIN ids : ids[m] = ids[n] => m = n}

CallsOf(function) ==
    {n \in DOMAIN linking_calls : linking_calls[n].function = function}

\* C21: in the first pass of _find_nearest_storms for tornado occurrence, every
\* track segment passed to _find_nearest_storms_one_time is unlinked and has
\* the assigned flag False, and belongs to no tornado that an earlier
\* iteration handed to _finish_tornado_linkage.
C21_FirstPassMatchesOnlyUnassigned ==
    \A n \in CallsOf("_find_nearest_storms_one_time") :
        \A m \in DOMAIN linking_calls[n].event_rows :
            LET row == linking_calls[n].before[linking_calls[n].event_rows[m]]
            IN  /\ row.nearest_secondary_id = None
                /\ ~row.tornado_assigned_flag
                /\ row.tornado_id \notin linking_calls[n].finished_before

\* An iteration of the first pass has matched a track segment while the table
\* held an unlinked segment of the same interpolation time whose tornado was
\* marked assigned by an earlier iteration.
C21_Witness ==
    \E n \in CallsOf("_find_nearest_storms_one_time") :
        LET call == linking_calls[n]
            times == InterpTimes(call.before, linking_args)
        IN  \E k \in DOMAIN call.before :
                /\ call.before[k].tornado_id \in call.finished_before
                /\ call.before[k].nearest_secondary_id = None
                /\ times[k] = times[call.event_rows[1]]
                /\ k \notin Range(call.event_rows)

\* The storm objects that a call of _finish_tornado_linkage takes as relevant:
\* the object of the nearest storm that is nearest in time to the nearest
\* storm time, and its non-splitting successors.
RelevantStormRowsOf(call) ==
    LET cell_rows == {r \in DOMAIN storm_object_table_xy :
                         storm_object_table_xy[r].secondary_id = call.nearest_secondary_id}
        main == ArgMinRow(cell_rows,
                          [r \in cell_rows |->
                              Abs(storm_object_table_xy[r].valid_time
                                  - call.nearest_storm_time)])
    IN  find_successors(storm_object_table_xy, main, 0, SPLIT_STRING)

\* <<first, last>> of the times of the relevant storm objects and the time of
\* the anchor segment.
SpanOf(call) ==
    LET times == {storm_object_table_xy[r].valid_time : r \in RelevantStormRowsOf(call)}
                 \cup {call.before[call.tornado_row].unix_time_sec}
    IN  <<SetMin(times), SetMax(times)>>

\* Track segments of the anchor's tornado that were unlinked before the call.
UnlinkedSegmentsOf(call) ==
    {k \in DOMAIN call.before :
        /\ call.before[k].tornado_id = call.before[call.tornado_row].tornado_id
        /\ call.before[k].linkage_distance = NaN}

\* Track segments that the call has linked.
SegmentsLinkedBy(call) ==
    {k \in DOMAIN call.before :
        /\ call.before[k].nearest_secondary_id = None
        /\ call.after[k].nearest_secondary_id # None}

SegmentTime(call, k) == call.before[k].unix_time_sec

\* The call leaves every segment that it does not link as it was, but for the
\* assigned flag, and gives every segment that it links the anchor's distance,
\* the segment's time as nearest storm time, and the secondary ID of a
\* relevant storm object nearest in time.
LinkedValuesOf(call) ==
    \A k \in DOMAIN call.before :
        IF k \in SegmentsLinkedBy(call)
        THEN /\ call.after[k].linkage_distance = call.nearest_distance
             /\ call.after[k].nearest_storm_time = SegmentTime(call, k)
             /\ \E r \in RelevantStormRowsOf(call) :
                   /\ storm_object_table_xy[r].secondary_id
                         = call.after[k].nearest_secondary_id
                   /\ \A q \in RelevantStormRowsOf(call) :
                         Abs(storm_object_table_xy[r].valid_time - SegmentTime(call, k))
                            <= Abs(storm_object_table_xy[q].valid_time
                                   - SegmentTime(call, k))
        ELSE /\ call.after[k].nearest_secondary_id = call.before[k].nearest_secondary_id
             /\ call.after[k].nearest_storm_time = call.before[k].nearest_storm_time
             /\ call.after[k].linkage_distance = call.before[k].linkage_distance

\* Calls of _finish_tornado_linkage of the latest iteration whose anchor
\* segment was unlinked on entry.
FinishCallsOnUnlinked ==
    {n \in CallsOf("_finish_tornado_linkage") :
        linking_calls[n].before[linking_calls[n].tornado_row].nearest_secondary_id = None}

\* C22 as claimed: one call of _finish_tornado_linkage links the anchor and
\* the unlinked segments of the tornado whose times are in the span from
\* min(first relevant storm time, anchor time) to max(last relevant storm time,
\* anchor time), with the values above, and leaves the segments outside the
\* span unlinked.
C22_LinksSegmentsInSpanOnly ==
    \A n \in FinishCallsOnUnlinked :
        LET call == linking_calls[n]
        IN  /\ LinkedValuesOf(call)
            /\ call.tornado_row \in SegmentsLinkedBy(call)
            /\ \A k \in UnlinkedSegmentsOf(call) :
                  k \in SegmentsLinkedBy(call)
                     <=> /\ SegmentTime(call, k) >= SpanOf(call)[1]
                         /\ SegmentTime(call, k) <= SpanOf(call)[2]

\* C22 amended: the call links the anchor and every unlinked segment of the
\* tornado that no other unlinked segment separates from the span: those in
\* the span, the latest one before it if none is at its start, and the
\* earliest one after it if none is at its end.  It leaves the others unlinked,
\* and the linked segments get the values above.
C22_LinksRunAroundSpan ==
    \A n \in FinishCallsOnUnlinked :
        LET call == linking_calls[n]
            unlinked == UnlinkedSegmentsOf(call)
        IN  /\ LinkedValuesOf(call)
            /\ call.tornado_row \in SegmentsLinkedBy(call)
            /\ SegmentsLinkedBy(call) \subseteq unlinked
            /\ \A k \in unlinked :
                  k \in SegmentsLinkedBy(call)
                     <=> /\ ~\E q \in unlinked :
                               /\ SegmentTime(call, k) < SegmentTime(call, q)
                               /\ SegmentTime(call, q) <= SpanOf(call)[1]
                         /\ ~\E q \in unlinked :
                               /\ SpanOf(call)[2] <= SegmentTime(call, q)
                               /\ SegmentTime(call, q) < SegmentTime(call, k)

\* A call has linked the anchor in the span and a segment after the span, and
\* has left a later segment of the tornado unlinked.
C22_Witness ==
    \E n \in FinishCallsOnUnlinked :
        LET call == linking_calls[n]
        IN  /\ \E k \in SegmentsLinkedBy(call) : SegmentTime(call, k) > SpanOf(call)[2]
            /\ \E k \in UnlinkedSegmentsOf(call) \ SegmentsLinkedBy(call) :
                  SegmentTime(call, k) > SpanOf(call)[2]

\* Calls of _link_tornado_to_new_storm of the latest iteration that returned
\* with the retried segment linked.
NewStormCallsThatLinked ==
    {n \in CallsOf("_link_tornado_to_new_storm") :
        /\ ~linking_calls[n].raised
        /\ linking_calls[n].before[linking_calls[n].tornado_row].nearest_secondary_id = None
        /\ linking_calls[n].after[linking_calls[n].tornado_row].nearest_secondary_id # None}

\* The storm to which the latest already linked segment of the tornado of the
\* retried segment was linked before the call.
LastAssignedStormOf(call) ==
    LET linked == {k \in DOMAIN call.before :
                      /\ call.before[k].tornado_id = call.before[call.tornado_row].tornado_id
                      /\ call.before[k].nearest_secondary_id # None}
        latest == CHOOSE k \in linked :
                      \A q \in linked :
                          call.before[q].unix_time_sec <= call.before[k].unix_time_sec
    IN  call.before[latest].nearest_secondary_id

\* Secondary IDs of the storms that come after the storm in the lineage graph:
\* those reached from it along next_secondary_ids, in one step or more.
RECURSIVE LaterStormIds(_, _)
LaterStormIds(ids, depth) ==
    LET next == UNION {storm_object_table_xy[r].next_secondary_ids :
                          r \in {q \in DOMAIN storm_object_table_xy :
                                    storm_object_table_xy[q].secondary_id \in ids}}
    IN  IF depth = 0 THEN {} ELSE next \cup LaterStormIds(next, depth - 1)

SuccessorIdsOf(secondary_id) == LaterStormIds({secondary_id}, MaxCells) \ {secondary_id}

InterpCellProfiles ==
    {[num_objects |-> 1, start_time |-> s, time_step |-> 1, x_step |-> 2] : s \in {0, 1}}
    \cup [num_objects : 2..ObjectsPerCell, start_time : {0, 1}, time_step : {1, 2},
          x_step : {2, 4}]

InterpCellEndTime(profile) ==
    profile.start_time + (profile.num_objects - 1) * profile.time_step

\* Storm object k of cell c.  The outline is a rectangle around the centroid
\* whose half-width grows with k, so that the outlines of a cell differ.
\* `linked` holds the pairs <<predecessor cell, successor cell>>.
InterpStormObject(c, k, profile, linked) ==
    LET centroid_x == 4 * (c - 1) + (k - 1) * profile.x_step
    IN  [secondary_id |-> c,
         valid_time |-> profile.start_time + (k - 1) * profile.time_step,
         prev_secondary_ids |-> IF k = 1 THEN {l[1] : l \in {m \in linked : m[2] = c}}
                                ELSE {c},
         next_secondary_ids |-> IF k = profile.num_objects
                                THEN {l[2] : l \in {m \in linked : m[1] = c}}
                                ELSE {c},
         centroid_x |-> centroid_x,
         centroid_y |-> 1,
         vertices_x |-> <<centroid_x - k, centroid_x + k, centroid_x + k, centroid_x - k>>,
         vertices_y |-> <<0, 0, 2, 2>>]

\* Tables of one cell, or of two cells where the second may be the successor
\* of the first; rows in order of valid time.
InterpStormObjectTables ==
    {SortStormObjects({InterpStormObject(1, k, p, {}) : k \in 1..p.num_objects}) :
        p \in InterpCellProfiles}
    \cup
    UNION {
        {SortStormObjects(
             {InterpStormObject(1, k, p, linked) : k \in 1..p.num_objects}
             \cup {InterpStormObject(2, k, q, linked) : k \in 1..q.num_objects}) :
            linked \in {{}} \cup (IF InterpCellEndTime(p) < q.start_time
                                  THEN {{<<1, 2>>}} ELSE {})} :
        p \in InterpCellProfiles, q \in InterpCellProfiles}

InterpTargetTimes == 0..(INTERP_SUBSET_SLACK + 5)

InterpMaxTimes == {0, DEFAULT_MAX_TIME_BEFORE_STORM_SEC}

InterpInit ==
    /\ interp_storm_object_table \in InterpStormObjectTables
    /\ interp_args = <<>>
    /\ interp_result = <<>>
    /\ interp_pc = "ready"
    /\ LineageIdle /\ MatcherIdle /\ RedundantIdle /\ LinkingIdle /\ FileIdle /\ ProjectionIdle /\ StitchIdle

\* One call of _interp_storms_in_time on the storm-object table.
InterpStormsInTime ==
    /\ interp_pc = "ready"
    /\ \E target_time \in InterpTargetTimes, before \in InterpMaxTimes, after \in InterpMaxTimes :
          /\ interp_args' = [target_time_unix_sec |-> target_time,
                             max_time_before_start_sec |-> before,
                             max_time_after_end_sec |-> after]
          /\ interp_result' = _interp_storms_in_time(interp_storm_object_table,
                                                     target_time, before, after)
    /\ interp_pc' = "_interp_storms_in_time"
    /\ UNCHANGED interp_storm_object_table
    /\ UNCHANGED not_interp_vars

\* Rows of one storm cell, as passed to _interp_one_storm_in_time.
StormObjectTable1Cell(table, secondary_id) ==
    SelectSeq(table, LAMBDA row : row.secondary_id = secondary_id)

\* One call of _interp_one_storm_in_time on the storm objects of one cell.
InterpOneStormInTime ==
    /\ interp_pc = "ready"
    /\ \E secondary_id \in {interp_storm_object_table[r].secondary_id :
                               r \in DOMAIN interp_storm_object_table},
          target_time \in InterpTargetTimes :
          /\ interp_args' = [target_time_unix_sec |-> target_time,
                             secondary_id_string |-> secondary_id]
          /\ interp_result' = _interp_one_storm_in_time(
                                  StormObjectTable1Cell(interp_storm_object_table,
                                                        secondary_id),
                                  secondary_id, target_time)
    /\ interp_pc' = "_interp_one_storm_in_time"
    /\ UNCHANGED interp_storm_object_table
    /\ UNCHANGED not_interp_vars

InterpNext ==
    \/ InterpStormsInTime
    \/ InterpOneStormInTime

SpecInterp == InterpInit /\ [][InterpNext]_vars

\* ------------------------------------------------ interpolation properties
\* Secondary IDs in a vertex table.
SecondaryIdsIn(vertex_table) ==
    {vertex_table[v].secondary_id : v \in DOMAIN vertex_table}

\* Rows of the vertex table for one secondary ID, in the order of the table.
VerticesOf(vertex_table, secondary_id) ==
    SelectSeq(vertex_table, LAMBDA row : row.secondary_id = secondary_id)

\* The outline of a storm object moved by (dx, dy), as rows of a vertex table.
TranslatedVertices(row, dx, dy) ==
    [v \in DOMAIN row.vertices_x |->
        [secondary_id |-> row.secondary_id,
         vertex_x |-> row.vertices_x[v] + dx,
         vertex_y |-> row.vertices_y[v] + dy]]

\* Rows whose storm object is the only one of its cell and has neither an
\* immediate predecessor nor an immediate successor.
LoneObjectRows(table) ==
    {r \in DOMAIN table :
        /\ \A q \in DOMAIN table : table[q].secondary_id = table[r].secondary_id => q = r
        /\ find_immediate_predecessors(table, r) = {}
        /\ find_immediate_successors(table, r) = {}}

\* C13: _interp_storms_in_time, at a target time equal to the valid time of
\* the only storm object of a cell that has no immediate predecessor or
\* successor, outputs that secondary ID with the object's vertices unchanged.
C13_SingleObjectCellInterpolated ==
    interp_pc = "_interp_storms_in_time" =>
        \A r \in LoneObjectRows(interp_storm_object_table) :
            interp_storm_object_table[r].valid_time = interp_args.target_time_unix_sec
            => VerticesOf(interp_result, interp_storm_object_table[r].secondary_id)
                  = TranslatedVertices(interp_storm_object_table[r], 0, 0)

\* Valid times of the storm objects of one cell.
ValidTimesOf(table, secondary_id) ==
    {table[r].valid_time : r \in {q \in DOMAIN table :
                                     table[q].secondary_id = secondary_id}}

\* The call of _interp_one_storm_in_time was for a cell with storm objects at
\* exactly two valid times and a target time half-way between them.
InterpolatedToMidpoint ==
    /\ interp_pc = "_interp_one_storm_in_time"
    /\ LET times == ValidTimesOf(interp_storm_object_table, interp_args.secondary_id_string)
       IN  /\ Cardinality(times) = 2
           /\ 2 * interp_args.target_time_unix_sec = SetMin(times) + SetMax(times)

\* C14: for a cell with storm objects at two valid times t1 < t2,
\* _interp_one_storm_in_time at target (t1 + t2) / 2 returns the vertices of
\* the earlier time step, all moved by half the displacement of the centroid
\* from t1 to t2, so that the centroid is the midpoint of the two centroids.
C14_MidpointTranslatesEarlierStep ==
    InterpolatedToMidpoint =>
        LET rows == StormObjectTable1Cell(interp_storm_object_table,
                                          interp_args.secondary_id_string)
            first == rows[1]
            second == rows[2]
        IN  /\ Len(interp_result) = Len(first.vertices_x)
            /\ \A v \in DOMAIN interp_result :
                  /\ interp_result[v].secondary_id = interp_args.secondary_id_string
                  /\ 2 * (interp_result[v].vertex_x - first.vertices_x[v])
                        = second.centroid_x - first.centroid_x
                  /\ 2 * (interp_result[v].vertex_y - first.vertices_y[v])
                        = second.centroid_y - first.centroid_y

\* A cell that moved between its two time steps was interpolated to the
\* midpoint of its valid times.
C14_Witness ==
    /\ InterpolatedToMidpoint
    /\ interp_result # <<>>
    /\ LET rows == StormObjectTable1Cell(interp_storm_object_table,
                                         interp_args.secondary_id_string)
       IN  rows[1].centroid_x # rows[2].centroid_x

\* The window of the cell covers the target time of the call.
WindowCovers(table, secondary_id, args) ==
    /\ SecondaryStartTime(table, secondary_id)
          <= args.target_time_unix_sec + args.max_time_before_start_sec
    /\ SecondaryEndTime(table, secondary_id)
          >= args.target_time_unix_sec - args.max_time_after_end_sec

\* C15: _interp_storms_in_time outputs a secondary ID only if the cell's first
\* valid time is at most the target time plus max_time_before_start_sec and
\* its last valid time is at least the target time minus max_time_after_end_sec.
C15_OutputOnlyInsideWindow ==
    interp_pc = "_interp_storms_in_time" =>
        \A id \in SecondaryIdsIn(interp_result) :
            WindowCovers(interp_storm_object_table, id, interp_args)

\* The call has output one cell and left out another that the pre-filter with
\* its slack admits but whose window does not cover the target time.
C15_Witness ==
    /\ interp_pc = "_interp_storms_in_time"
    /\ interp_result # <<>>
    /\ \E r \in DOMAIN interp_storm_object_table :
          LET id == interp_storm_object_table[r].secondary_id
          IN  /\ ~WindowCovers(interp_storm_object_table, id, interp_args)
              /\ id \notin SecondaryIdsIn(interp_result)
              /\ Cardinality(ValidTimesOf(interp_storm_object_table, id)) > 1
              /\ SecondaryStartTime(interp_storm_object_table, id)
                    <= interp_args.target_time_unix_sec
                          + interp_args.max_time_before_start_sec + INTERP_SUBSET_SLACK
              /\ SecondaryEndTime(interp_storm_object_table, id)
                    >= interp_args.target_time_unix_sec
                          - interp_args.max_time_after_end_sec - INTERP_SUBSET_SLACK

\* ------------------------------------------------------- linkage files
MAX_TIME_BEFORE_START_KEY == "max_time_before_storm_start_sec"
MAX_TIME_AFTER_END_KEY == "max_time_after_storm_end_sec"
STORM_INTERP_TIME_KEY == "storm_interp_time_interval_sec"
BBOX_PADDING_KEY == "bounding_box_padding_metres"
MAX_LINK_DISTANCE_KEY == "max_link_distance_metres"

\* Columns of the storm-object table that the model keeps.
REQUIRED_STORM_COLUMNS ==
    {"secondary_id", "valid_time", "prev_secondary_ids", "next_secondary_ids"}

REQUIRED_WIND_LINKAGE_COLUMNS == REQUIRED_STORM_COLUMNS \cup Range(WIND_LINKAGE_COLUMNS)

REQUIRED_TORNADO_LINKAGE_COLUMNS ==
    REQUIRED_STORM_COLUMNS \cup Range(TORNADO_LINKAGE_COLUMNS)

\* error_checking.assert_columns_in_dataframe: FALSE where the code raises.
\* A table is a function from its column names to the lists of values by row.
assert_columns_in_dataframe(table, columns) == columns \subseteq DOMAIN table

\* write_linkage_file: the objects in the file, or <<>> if the call raises
\* before it opens the file.
write_linkage_file(storm_to_events, metadata_dict, tornado_to_storm) ==
    IF ~assert_columns_in_dataframe(storm_to_events, REQUIRED_WIND_LINKAGE_COLUMNS)
          /\ ~assert_columns_in_dataframe(storm_to_events, REQUIRED_TORNADO_LINKAGE_COLUMNS)
    THEN <<>>
    ELSE <<storm_to_events, metadata_dict, tornado_to_storm>>

\* read_linkage_file on a file that holds `pickled`: the three values returned,
\* or <<>> if the call raises.  A file with the table only ends at the second
\* pickle.load (EOFError); a tornado-to-storm table of None is <<>>.
read_linkage_file(pickled) ==
    LET loaded == pickled[1]
        num_storm_objects == Len(loaded[CHOOSE c \in DOMAIN loaded : TRUE])
        storm_to_events ==
            IF MERGING_PRED_FLAG_COLUMN \notin DOMAIN loaded
            THEN [c \in DOMAIN loaded \cup {MERGING_PRED_FLAG_COLUMN} |->
                     IF c = MERGING_PRED_FLAG_COLUMN
                     THEN [r \in 1..num_storm_objects |-> FALSE]
                     ELSE loaded[c]]
            ELSE loaded
        loaded_tornado_to_storm == IF Len(pickled) >= 3 THEN pickled[3] ELSE <<>>
        wind == assert_columns_in_dataframe(storm_to_events, REQUIRED_WIND_LINKAGE_COLUMNS)
        tornado == ~wind
        max_link_distance_metres ==
            IF tornado THEN DEFAULT_MAX_TORNADO_DISTANCE_METRES
            ELSE DEFAULT_MAX_WIND_DISTANCE_METRES
        metadata_dict ==
            [k \in {MAX_TIME_BEFORE_START_KEY, MAX_TIME_AFTER_END_KEY,
                    STORM_INTERP_TIME_KEY, BBOX_PADDING_KEY, MAX_LINK_DISTANCE_KEY} |->
                CASE k = MAX_TIME_BEFORE_START_KEY -> DEFAULT_MAX_TIME_BEFORE_STORM_SEC
                  [] k = MAX_TIME_AFTER_END_KEY -> DEFAULT_MAX_TIME_AFTER_STORM_SEC
                  [] k = STORM_INTERP_TIME_KEY -> IF tornado THEN 1 ELSE 10
                  [] k = BBOX_PADDING_KEY -> DEFAULT_BBOX_PADDING_METRES
                  [] k = MAX_LINK_DISTANCE_KEY -> max_link_distance_metres]
    IN  IF ~wind /\ ~assert_columns_in_dataframe(storm_to_events,
                                                 REQUIRED_TORNADO_LINKAGE_COLUMNS)
        THEN <<>>
        ELSE <<storm_to_events, metadata_dict, loaded_tornado_to_storm>>

\* --------------------------------------------- linkage-file specification
\* Storm-to-events tables of one storm object with the given columns: empty
\* event lists and either value of the merging-predecessor flag.
FileTablesWith(columns) ==
    {[c \in columns |-> IF c = MERGING_PRED_FLAG_COLUMN THEN <<flag>> ELSE << <<>> >>] :
        flag \in BOOLEAN}

\* Tables as _reverse_wind_linkages and _reverse_tornado_linkages make them,
\* and tables of before the merging-predecessor flag was introduced.
StormToEventsTables ==
    FileTablesWith(REQUIRED_WIND_LINKAGE_COLUMNS)
    \cup FileTablesWith(REQUIRED_TORNADO_LINKAGE_COLUMNS)
    \cup FileTablesWith(REQUIRED_WIND_LINKAGE_COLUMNS \ {MERGING_PRED_FLAG_COLUMN})
    \cup FileTablesWith(REQUIRED_TORNADO_LINKAGE_COLUMNS \ {MERGING_PRED_FLAG_COLUMN})

\* Metadata as _check_input_args returns it: for each key the default and one
\* other value.
MetadataDicts ==
    {[k \in {MAX_TIME_BEFORE_START_KEY, MAX_TIME_AFTER_END_KEY, STORM_INTERP_TIME_KEY,
             BBOX_PADDING_KEY, MAX_LINK_DISTANCE_KEY} |->
         CASE k = MAX_TIME_BEFORE_START_KEY -> before
           [] k = MAX_TIME_AFTER_END_KEY -> after
           [] k = STORM_INTERP_TIME_KEY -> interval
           [] k = BBOX_PADDING_KEY -> padding
           [] k = MAX_LINK_DISTANCE_KEY -> distance] :
        before \in {DEFAULT_MAX_TIME_BEFORE_STORM_SEC, 2 * DEFAULT_MAX_TIME_BEFORE_STORM_SEC},
        after \in {DEFAULT_MAX_TIME_AFTER_STORM_SEC, 2 * DEFAULT_MAX_TIME_AFTER_STORM_SEC},
        interval \in {1, 10},
        padding \in {DEFAULT_BBOX_PADDING_METRES, 2 * DEFAULT_BBOX_PADDING_METRES},
        distance \in {DEFAULT_MAX_WIND_DISTANCE_METRES, 2 * DEFAULT_MAX_WIND_DISTANCE_METRES}}

\* The optional tornado-to-storm table: <<>> if it is left out (None in the
\* code), <<table>> for a table with the rows of one tornado.
OptionalTornadoToStormTables ==
    {<<>>} \cup {<<table>> : table \in TornadoProfiles(1, 1) \ {<<>>}}

\* There is no file yet, or a file of before the metadata were written: the
\* storm-to-events table only, without the merging-predecessor flag.
FileInit ==
    /\ linkage_file \in
          {<<>>} \cup
          {<<table>> : table \in FileTablesWith(REQUIRED_WIND_LINKAGE_COLUMNS
                                                   \ {MERGING_PRED_FLAG_COLUMN})}
    /\ written_values = <<>>
    /\ read_values = <<>>
    /\ file_pc = "ready"
    /\ LineageIdle /\ MatcherIdle /\ RedundantIdle /\ LinkingIdle /\ InterpIdle /\ ProjectionIdle /\ StitchIdle

\* One call of write_linkage_file.  A call that raises leaves the file alone.
WriteLinkageFile ==
    /\ file_pc = "ready"
    /\ written_values = <<>>
    /\ \E table \in StormToEventsTables, metadata_dict \in MetadataDicts,
          tornado_to_storm \in OptionalTornadoToStormTables :
          LET pickled == write_linkage_file(table, metadata_dict, tornado_to_storm)
          IN  /\ written_values' = <<table, metadata_dict, tornado_to_storm>>
              /\ linkage_file' = IF pickled = <<>> THEN linkage_file ELSE pickled
              /\ file_pc' = IF pickled = <<>> THEN "write_linkage_file raised" ELSE "ready"
    /\ UNCHANGED read_values
    /\ UNCHANGED not_file_vars

\* One call of read_linkage_file on the file.
ReadLinkageFile ==
    /\ file_pc = "ready"
    /\ linkage_file # <<>>
    /\ read_values' = read_linkage_file(linkage_file)
    /\ file_pc' = IF read_linkage_file(linkage_file) = <<>>
                  THEN "read_linkage_file raised" ELSE "read_linkage_file"
    /\ UNCHANGED <<linkage_file, written_values>>
    /\ UNCHANGED not_file_vars

FileNext ==
    \/ WriteLinkageFile
    \/ ReadLinkageFile

SpecFile == FileInit /\ [][FileNext]_vars

\* -------------------------------------------------- linkage-file properties
\* C16: read_linkage_file on the file that write_linkage_file produced returns
\* the storm-to-events table, the metadata dict and the tornado-to-storm table
\* that were written.
C16_ReadReturnsWhatWasWritten ==
    (file_pc = "read_linkage_file" /\ written_values # <<>>) =>
        read_values = written_values

\* ------------------------------------------- projection of the two periods
\* geodetic_utils.get_latlng_centroid: mean latitude and mean longitude, on the
\* integer grid of this model.
get_latlng_centroid(latitudes_deg, longitudes_deg) ==
    <<Sum(latitudes_deg) \div Len(latitudes_deg),
      Sum(longitudes_deg) \div Len(longitudes_deg)>>

\* projections.init_azimuthal_equidistant_projection: the projection object is
\* its central point.
init_azimuthal_equidistant_projection(central_latitude_deg, central_longitude_deg) ==
    [central_latitude_deg |-> central_latitude_deg,
     central_longitude_deg |-> central_longitude_deg]

\* projections.project_latlng_to_xy for one point: <<x, y>> relative to the
\* central point, one grid unit per degree.
project_latlng_to_xy(latitude_deg, longitude_deg, projection_object) ==
    <<longitude_deg - projection_object.central_longitude_deg,
      latitude_deg - projection_object.central_latitude_deg>>

_project_storms_latlng_to_xy(table, projection_object) ==
    [r \in DOMAIN table |->
        LET row == table[r]
            centroid == project_latlng_to_xy(row.centroid_lat_deg, row.centroid_lng_deg,
                                             projection_object)
            vertex(n) == project_latlng_to_xy(row.polygon_lats_deg[n],
                                              row.polygon_lngs_deg[n], projection_object)
        IN  row @@ [centroid_x |-> centroid[1],
                    centroid_y |-> centroid[2],
                    vertices_x |-> [n \in DOMAIN row.polygon_lngs_deg |-> vertex(n)[1]],
                    vertices_y |-> [n \in DOMAIN row.polygon_lats_deg |-> vertex(n)[2]]]]

_project_events_latlng_to_xy(events, projection_object) ==
    [k \in DOMAIN events |->
        LET xy == project_latlng_to_xy(events[k].latitude_deg,
                                       events[k].longitude_deg, projection_object)
        IN  events[k] @@ [x_coord |-> xy[1], y_coord |-> xy[2]]]

_get_bounding_box_for_storms(table, padding_metres) ==
    LET xs == UNION {Range(table[r].vertices_x) : r \in DOMAIN table}
        ys == UNION {Range(table[r].vertices_y) : r \in DOMAIN table}
    IN  [x_limits_metres |-> <<SetMin(xs) - padding_metres, SetMax(xs) + padding_metres>>,
         y_limits_metres |-> <<SetMin(ys) - padding_metres, SetMax(ys) + padding_metres>>]

_filter_events_by_bounding_box(events, x_limits_metres, y_limits_metres) ==
    SelectSeq(events, LAMBDA event :
        /\ event.x_coord >= x_limits_metres[1] /\ event.x_coord <= x_limits_metres[2]
        /\ event.y_coord >= y_limits_metres[1] /\ event.y_coord <= y_limits_metres[2])

\* The columns _find_nearest_storms adds to a table of tornado track segments,
\* or link_storms_to_tornadoes if there is no storm object.
UnlinkedRows(events, is_tornado) ==
    [k \in DOMAIN events |->
        events[k] @@
            (IF is_tornado
             THEN [nearest_secondary_id |-> None, nearest_storm_time |-> -1,
                   linkage_distance |-> NaN, tornado_assigned_flag |-> FALSE]
             ELSE [nearest_secondary_id |-> None, nearest_storm_time |-> -1,
                   linkage_distance |-> NaN])]

\* The two loops of _find_nearest_storms from the i-th unique interpolation
\* time on.
RECURSIVE FirstPassLoop(_, _, _, _)
FirstPassLoop(storm_table, events, args, i) ==
    IF i > Len(UniqueInterpTimes(events, args)) THEN events
    ELSE FirstPassLoop(storm_table, FirstPassBody(storm_table, events, args, i), args, i + 1)

\* Storm objects whose centroids and outlines _interp_storms_in_time hands to
\* _interp_one_storm_in_time for one secondary ID, as rows of the table.
StormRowsInterpolated(table, secondary_id, target_time, max_time_before_start, max_time_after_end) ==
    LET max_start_time == target_time + max_time_before_start
        min_end_time == target_time - max_time_after_end
        sorted_storm_object_table ==
            SelectSeq(table, LAMBDA row :
                /\ SecondaryStartTime(table, row.secondary_id)
                      <= max_start_time + INTERP_SUBSET_SLACK
                /\ SecondaryEndTime(table, row.secondary_id)
                      >= min_end_time - INTERP_SUBSET_SLACK)
        these_main_rows ==
            SortedSeq({r \in DOMAIN sorted_storm_object_table :
                          sorted_storm_object_table[r].secondary_id = secondary_id})
        these_rows ==
            find_immediate_predecessors(sorted_storm_object_table, these_main_rows[1])
            \cup Range(these_main_rows)
            \cup find_immediate_successors(sorted_storm_object_table,
                                           these_main_rows[Len(these_main_rows)])
    IN  IF these_main_rows = <<>> THEN {}
        ELSE IF InterpOneCell(sorted_storm_object_table, secondary_id, target_time,
                              max_start_time, min_end_time) = <<>>
        THEN {}
        ELSE {sorted_storm_object_table[r] : r \in these_rows}

\* Storm objects behind the vertices that one call of _link_tornado_to_new_storm
\* hands to _find_nearest_storms_one_time together with the tornado's position.
StormRowsComparedInLink(storm_table, tornado_to_storm_table, tornado_row, args) ==
    LET event_time == tornado_to_storm_table[tornado_row].unix_time_sec
        tornado_rows == {k \in DOMAIN tornado_to_storm_table :
                            /\ tornado_to_storm_table[k].tornado_id
                                  = tornado_to_storm_table[tornado_row].tornado_id
                            /\ tornado_to_storm_table[k].nearest_secondary_id # None}
        tornado_time(k) == tornado_to_storm_table[k].unix_time_sec
        last_assigned_event_row == ArgMaxRow(tornado_rows,
                                             [k \in tornado_rows |-> tornado_time(k)])
        last_assigned_sec_id ==
            tornado_to_storm_table[last_assigned_event_row].nearest_secondary_id
        storm_time(r) == storm_table[r].valid_time
        last_assigned_object_row ==
            ArgMaxRow({r \in DOMAIN storm_table :
                          storm_table[r].secondary_id = last_assigned_sec_id},
                      [r \in DOMAIN storm_table |-> storm_time(r)])
        relevant_object_rows == find_successors(storm_table, last_assigned_object_row,
                                                NoLimit(storm_table), ANY_CHANGE_STRING)
        relevant_sec_ids == {storm_table[r].secondary_id : r \in relevant_object_rows}
    IN  IF LinkToNewStormRaises(tornado_to_storm_table, tornado_row) THEN {}
        ELSE UNION {StormRowsInterpolated(storm_table, id, event_time,
                                          args.max_time_before_storm_start_sec,
                                          args.max_time_after_storm_end_sec) :
                       id \in relevant_sec_ids}

\* One call of _link_tornado_to_new_storm in a loop over track segments.  The
\* state of the loop is the table, whether a call has raised, and the pairs
\* <<row of the track segment, storm object>> whose planar coordinates the
\* calls have compared.
LinkOneRow(storm_table, state, tornado_row, args) ==
    IF state.raised THEN state
    ELSE IF LinkToNewStormRaises(state.events, tornado_row)
    THEN [state EXCEPT !.raised = TRUE]
    ELSE [raised |-> FALSE,
          events |-> _link_tornado_to_new_storm(storm_table, state.events, tornado_row, args),
          compared |-> state.compared \cup
              {<<tornado_row, row>> :
                  row \in StormRowsComparedInLink(storm_table, state.events, tornado_row,
                                                  args)}]

RECURSIVE LinkRows(_, _, _, _, _)
LinkRows(storm_table, state, these_rows, args, n) ==
    IF n > Len(these_rows) THEN state
    ELSE LinkRows(storm_table, LinkOneRow(storm_table, state, these_rows[n], args),
                  these_rows, args, n + 1)

\* The loop handing over every unlinked track segment, whether or not its
\* tornado has the assigned flag.
RECURSIVE LinkLoopOfAnyUnlinked(_, _, _, _, _)
LinkLoopOfAnyUnlinked(storm_table, state, times, args, i) ==
    LET unique_times == SortedSeq(Range(times))
        these_rows ==
            SortedSeq({k \in DOMAIN state.events :
                          /\ times[k] = unique_times[i]
                          /\ state.events[k].nearest_secondary_id = None})
    IN  IF i > Len(unique_times) THEN state
        ELSE LinkLoopOfAnyUnlinked(storm_table,
                                   LinkRows(storm_table, state, these_rows, args, 1),
                                   times, args, i + 1)

\* The loop over unique times that hands the still unlinked track segments of
\* tornadoes with a linked segment to _link_tornado_to_new_storm: the second
\* loop of _find_nearest_storms (times are interpolation times) and the loop of
\* _share_tornado_linkages (times are event times).
RECURSIVE LinkLoop(_, _, _, _, _)
LinkLoop(storm_table, state, times, args, i) ==
    LET unique_times == SortedSeq(Range(times))
        these_rows ==
            SortedSeq({k \in DOMAIN state.events :
                          /\ times[k] = unique_times[i]
                          /\ state.events[k].nearest_secondary_id = None
                          /\ state.events[k].tornado_assigned_flag})
    IN  IF i > Len(unique_times) THEN state
        ELSE LinkLoop(storm_table, LinkRows(storm_table, state, these_rows, args, 1),
                      times, args, i + 1)

\* _find_nearest_storms for tornado track segments, from the table with the
\* new columns on: the state of the second loop on return.
_find_nearest_storms(storm_table, events, args) ==
    LinkLoop(storm_table,
             [raised |-> FALSE, events |-> FirstPassLoop(storm_table, events, args, 1),
              compared |-> {}],
             InterpTimes(events, args), args, 1)

\* The end of link_storms_to_tornadoes, from the return of _find_nearest_storms
\* on.  The storm-to-tornadoes table is kept as two columns of one record: the
\* storm objects with their planar coordinates, and their linkages.
LinkageTablesOf(projected_storms, found, period) ==
    [raised |-> found.raised,
     storm_object_table |-> projected_storms,
     tornado_to_storm_table |-> found.events,
     storm_to_tornadoes_table |->
         _reverse_tornado_linkages(projected_storms, found.events, period)]

\* link_storms_to_tornadoes from the bounding box of the projected storm
\* objects on.
LinkInBoundingBox(projected_storms, projected_tornadoes, box, args, period) ==
    LinkageTablesOf(
        projected_storms,
        _find_nearest_storms(
            projected_storms,
            UnlinkedRows(_filter_events_by_bounding_box(projected_tornadoes,
                                                        box.x_limits_metres,
                                                        box.y_limits_metres),
                         TRUE),
            args),
        period)

\* link_storms_to_tornadoes from the projection object on.
LinkWithProjection(table, tornado_table, projection_object, args, period) ==
    LinkInBoundingBox(
        _project_storms_latlng_to_xy(table, projection_object),
        _project_events_latlng_to_xy(tornado_table, projection_object),
        _get_bounding_box_for_storms(_project_storms_latlng_to_xy(table, projection_object),
                                     args.bounding_box_padding_metres),
        args, period)

\* link_storms_to_tornadoes for one period, from the tables read on.
link_storms_to_tornadoes(table, tornado_table, args, period) ==
    LET global_centroid ==
            get_latlng_centroid(
                [r \in DOMAIN table |-> table[r].centroid_lat_deg],
                [r \in DOMAIN table |-> table[r].centroid_lng_deg])
    IN  IF Len(table) = 0
        THEN [raised |-> FALSE,
              storm_object_table |-> table,
              tornado_to_storm_table |-> UnlinkedRows(tornado_table, FALSE),
              storm_to_tornadoes_table |-> <<>>]
        ELSE LinkWithProjection(
                 table, tornado_table,
                 init_azimuthal_equidistant_projection(global_centroid[1],
                                                       global_centroid[2]),
                 args, period)

\* ------------------------------------------------ _share_tornado_linkages
\* DataFrame.drop_duplicates on secondary ID and valid time, keeping the first.
DropDuplicateObjects(table) ==
    PickIndices(table,
                {r \in DOMAIN table :
                    \A q \in 1..(r - 1) :
                        \/ table[q].secondary_id # table[r].secondary_id
                        \/ table[q].valid_time # table[r].valid_time},
                1)

\* Rows of a tornado table whose tornado is in `tornado_ids`.
RelevantRows(tornado_to_storm_table, tornado_ids) ==
    {k \in DOMAIN tornado_to_storm_table :
        tornado_to_storm_table[k].tornado_id \in tornado_ids}

\* Tornadoes for which _remove_redundant_tornado_linkages compares the linkage
\* distance of the early table with that of the late table: in both tables,
\* linked in both at the start of the track, and reached before any raise.
DistanceComparedTornadoIds(early, late) ==
    {id \in TornadoIdsIn(early) \cap TornadoIdsIn(late) :
        /\ \A other \in MismatchedTornadoIds(early, late) : id < other
        /\ early[StartRow(early, RowsOfTornado(early, id))].nearest_secondary_id # None
        /\ late[StartRow(late, RowsOfTornado(late, id))].nearest_secondary_id # None}

\* The n-th smallest element of a set of row numbers.
NthOf(rows, n) == SortedSeq(rows)[n]

\* table.iloc[rows] = new_rows
AssignRows(table, rows, new_rows) ==
    [k \in DOMAIN table |->
        IF k \in rows THEN new_rows[CHOOSE n \in 1..Cardinality(rows) : NthOf(rows, n) = k]
        ELSE table[k]]

\* The periods whose runs made the planar coordinates of each compared pair
\* <<row of the track segment, storm object>>: <<period of the tornado's
\* position, period of the storm object>>.
CoordinatesCompared(compared, num_relevant_early_rows) ==
    {<<IF pair[1] <= num_relevant_early_rows THEN EARLY ELSE LATE,
       IF pair[2].early_flag THEN EARLY ELSE LATE>> : pair \in compared}

\* The end of _share_tornado_linkages, from the write-back of the relevant
\* rows on: the tornado tables, and the reversed linkages split by period.
SharedTablesOf(storm_table, new_early, new_late, storm_to_tornadoes) ==
    [raised |-> FALSE,
     early_tornado_to_storm_table |-> new_early,
     late_tornado_to_storm_table |-> new_late,
     early_storm_to_tornadoes_table |->
         PickIndices(storm_to_tornadoes,
                     {r \in DOMAIN storm_table : storm_table[r].early_flag}, 1),
     late_storm_to_tornadoes_table |->
         PickIndices(storm_to_tornadoes,
                     {r \in DOMAIN storm_table : ~storm_table[r].early_flag}, 1)]

\* _share_tornado_linkages from the end of the loop over unique times on.
ShareAfterLoop(removed, storm_table, relevant_early_rows, relevant_late_rows, linked) ==
    LET num_relevant_early_rows == Cardinality(relevant_early_rows)
        new_early == AssignRows(removed.early, relevant_early_rows,
                                SubSeq(linked.events, 1, num_relevant_early_rows))
        new_late == AssignRows(removed.late, relevant_late_rows,
                               SubSeq(linked.events, num_relevant_early_rows + 1,
                                      Len(linked.events)))
        coordinates_compared == CoordinatesCompared(linked.compared, num_relevant_early_rows)
    IN  IF linked.raised
        THEN [raised |-> TRUE,
              early_tornado_to_storm_table |-> removed.early,
              late_tornado_to_storm_table |-> removed.late,
              early_storm_to_tornadoes_table |-> <<>>,
              late_storm_to_tornadoes_table |-> <<>>,
              coordinates_compared |-> coordinates_compared]
        ELSE SharedTablesOf(storm_table, new_early, new_late,
                            _reverse_tornado_linkages(storm_table, new_early \o new_late,
                                                      EARLY + LATE))
             @@ [coordinates_compared |-> coordinates_compared]

\* _share_tornado_linkages from the concatenation of the relevant rows on.
ShareRelevantRows(removed, storm_table, relevant_early_rows, relevant_late_rows, args) ==
    LET tornado_to_storm_table ==
            PickIndices(removed.early, relevant_early_rows, 1)
            \o PickIndices(removed.late, relevant_late_rows, 1)
    IN  ShareAfterLoop(
            removed, storm_table, relevant_early_rows, relevant_late_rows,
            LinkLoop(storm_table,
                     [raised |-> FALSE, events |-> tornado_to_storm_table, compared |-> {}],
                     [k \in DOMAIN tornado_to_storm_table |->
                         tornado_to_storm_table[k].unix_time_sec],
                     args, 1))

\* _share_tornado_linkages from the return of
\* _remove_redundant_tornado_linkages on.
ShareAfterRemoval(removed, storm_table, orig_early_ids, orig_late_ids, args) ==
    IF removed.raised
    THEN [raised |-> TRUE,
          early_tornado_to_storm_table |-> removed.early,
          late_tornado_to_storm_table |-> removed.late,
          early_storm_to_tornadoes_table |-> <<>>,
          late_storm_to_tornadoes_table |-> <<>>,
          coordinates_compared |-> {}]
    ELSE ShareRelevantRows(removed, storm_table,
                           RelevantRows(removed.early, orig_late_ids),
                           RelevantRows(removed.late, orig_early_ids), args)

\* _share_tornado_linkages.  The storm-object tables are the storm-to-tornadoes
\* tables that link_storms_to_tornadoes returned, with the planar coordinates
\* of their own run.  The result holds the tornado tables too, which the
\* function changes in place, and which values it has compared.
_share_tornado_linkages(early_tornado_to_storm, late_tornado_to_storm, early_storms, late_storms, args) ==
    ShareAfterRemoval(
        _remove_redundant_tornado_linkages(early_tornado_to_storm, late_tornado_to_storm),
        DropDuplicateObjects(
            [r \in DOMAIN early_storms |-> early_storms[r] @@ [early_flag |-> TRUE]]
            \o [r \in DOMAIN late_storms |-> late_storms[r] @@ [early_flag |-> FALSE]]),
        {early_tornado_to_storm[k].tornado_id : k \in DOMAIN early_tornado_to_storm},
        {late_tornado_to_storm[k].tornado_id : k \in DOMAIN late_tornado_to_storm},
        args)
    @@ [distances_compared |->
           DistanceComparedTornadoIds(early_tornado_to_storm, late_tornado_to_storm) # {}]

\* ------------------------------------------------ projection specification
\* One storm object in latitude and longitude: a rectangular outline around
\* the centroid.
StormObjectLatLng(secondary_id, valid_time, centroid_lng_deg, prev_ids, next_ids) ==
    [secondary_id |-> secondary_id,
     valid_time |-> valid_time,
     prev_secondary_ids |-> prev_ids,
     next_secondary_ids |-> next_ids,
     centroid_lat_deg |-> 1,
     centroid_lng_deg |-> centroid_lng_deg,
     polygon_lats_deg |-> <<0, 0, 2, 2>>,
     polygon_lngs_deg |-> <<centroid_lng_deg - 1, centroid_lng_deg + 1,
                            centroid_lng_deg + 1, centroid_lng_deg - 1>>]

\* The storm tracks of two adjacent periods: one storm at ObjectsPerCell times
\* in each period, moving `speed` degrees east per time step; and, if
\* with_other, another storm far to the east that outlasts it in the early
\* period.
PeriodStormTables(speed, with_other) ==
    LET lng(t) == 2 + speed * (t - 1)
        last_own == ObjectsPerCell
        last_early == IF with_other THEN 2 * ObjectsPerCell - 1 ELSE ObjectsPerCell
        last_late == last_early + ObjectsPerCell
        own == [t \in 1..last_own |->
                   StormObjectLatLng(1, t, lng(t), IF t = 1 THEN {} ELSE {1}, {1})]
        other == [n \in 1..ObjectsPerCell |->
                     StormObjectLatLng(3, last_own + n - 1, OtherStormLongitude,
                                       IF n = 1 THEN {} ELSE {3},
                                       IF n = ObjectsPerCell THEN {} ELSE {3})]
    IN  <<IF with_other THEN own \o other ELSE own,
          [n \in 1..ObjectsPerCell |->
              LET t == last_early + n
              IN  StormObjectLatLng(1, t, lng(t), {1},
                                    IF t = last_late THEN {} ELSE {1})]>>

StormSpeeds == {0, 2}

TornadoLongitudes == {2, 8}

\* Track segments of tornado 1, which stays at one longitude, at the given times.
TornadoTable(times, longitude_deg) ==
    [k \in DOMAIN times |->
        [tornado_id |-> 1, unix_time_sec |-> times[k],
         latitude_deg |-> 1, longitude_deg |-> longitude_deg]]

\* Times of the track segments that _read_input_tornado_reports hands a period
\* with the given storm objects: at most MaxSegments times, in order, within
\* the time windows of the first and the last storm time.
TornadoTimeLists(table) ==
    LET storm_times == {table[r].valid_time : r \in DOMAIN table}
        min_tornado_time == SetMin(storm_times) - DEFAULT_MAX_TIME_BEFORE_STORM_SEC
        max_tornado_time == SetMax(storm_times) + DEFAULT_MAX_TIME_AFTER_STORM_SEC
    IN  {times \in UNION {[1..n -> min_tornado_time..max_tornado_time] : n \in 0..MaxSegments} :
            \A k \in 1..(Len(times) - 1) : times[k] < times[k + 1]}

ProjectionArgs ==
    [max_link_distance_metres |-> MaxLinkDistance,
     interp_time_interval_sec |-> 1,
     max_time_before_storm_start_sec |-> DEFAULT_MAX_TIME_BEFORE_STORM_SEC,
     max_time_after_storm_end_sec |-> DEFAULT_MAX_TIME_AFTER_STORM_SEC,
     event_type_string |-> TORNADO_EVENT_STRING,
     bounding_box_padding_metres |-> BoundingBoxPadding]

ProjectionInit ==
    /\ \E speed \in StormSpeeds, with_other \in BOOLEAN :
          period_storm_tables = PeriodStormTables(speed, with_other)
    /\ \E longitude_deg \in TornadoLongitudes :
          \E early_times \in TornadoTimeLists(period_storm_tables[EARLY]),
             late_times \in TornadoTimeLists(period_storm_tables[LATE]) :
              period_tornado_tables = <<TornadoTable(early_times, longitude_deg),
                                        TornadoTable(late_times, longitude_deg)>>
    /\ linkage_runs = <<<<>>, <<>>>>
    /\ shared_tables = <<>>
    /\ compared_origins = {}
    /\ projection_pc = "linking"
    /\ LineageIdle /\ MatcherIdle /\ RedundantIdle /\ LinkingIdle /\ InterpIdle /\ FileIdle /\ StitchIdle

\* The projection object that link_storms_to_tornadoes makes for a period.
ProjectionObjectOf(period) ==
    LET table == period_storm_tables[period]
        global_centroid ==
            get_latlng_centroid([r \in DOMAIN table |-> table[r].centroid_lat_deg],
                                [r \in DOMAIN table |-> table[r].centroid_lng_deg])
    IN  init_azimuthal_equidistant_projection(global_centroid[1], global_centroid[2])

\* One comparison: the projections behind its two operands.
Comparison(kind, first, second) == [kind |-> kind, first |-> first, second |-> second]

\* link_storms_to_tornadoes for one period, in a run of its own.  Positions of
\* tornadoes are compared with storm outlines in the bounding-box filter and
\* in the nearest-storm search.
LinkStormsToTornadoes ==
    /\ projection_pc = "linking"
    /\ \E p \in Periods :
          /\ linkage_runs[p] = <<>>
          /\ \E result \in {link_storms_to_tornadoes(period_storm_tables[p],
                                                     period_tornado_tables[p],
                                                     ProjectionArgs, p)} :
                /\ linkage_runs' = [linkage_runs EXCEPT ![p] = <<result>>]
                /\ projection_pc' = IF result.raised THEN "raised" ELSE "linking"
          /\ compared_origins' =
                compared_origins \cup
                IF period_tornado_tables[p] = <<>> THEN {}
                ELSE {Comparison("coordinates", ProjectionObjectOf(p), ProjectionObjectOf(p))}
    /\ UNCHANGED <<period_storm_tables, period_tornado_tables, shared_tables>>
    /\ UNCHANGED not_projection_vars

\* share_linkages for tornadoes, up to the return of _share_tornado_linkages,
\* on the tables that the runs of the two periods wrote.
ShareTornadoLinkages ==
    /\ projection_pc = "linking"
    /\ \A p \in Periods : linkage_runs[p] # <<>>
    /\ shared_tables = <<>>
    /\ \E result \in {_share_tornado_linkages(
                          linkage_runs[EARLY][1].tornado_to_storm_table,
                          linkage_runs[LATE][1].tornado_to_storm_table,
                          linkage_runs[EARLY][1].storm_object_table,
                          linkage_runs[LATE][1].storm_object_table, ProjectionArgs)} :
          /\ shared_tables' = <<result>>
          /\ projection_pc' = IF result.raised THEN "raised" ELSE "shared"
          /\ compared_origins' =
                compared_origins
                \cup (IF result.distances_compared
                      THEN {Comparison("distances", ProjectionObjectOf(EARLY),
                                       ProjectionObjectOf(LATE))}
                      ELSE {})
                \cup {Comparison("coordinates", ProjectionObjectOf(periods[1]),
                                 ProjectionObjectOf(periods[2])) :
                         periods \in result.coordinates_compared}
    /\ UNCHANGED <<period_storm_tables, period_tornado_tables, linkage_runs>>
    /\ UNCHANGED not_projection_vars

ProjectionNext ==
    \/ LinkStormsToTornadoes
    \/ ShareTornadoLinkages

SpecProjection == ProjectionInit /\ [][ProjectionNext]_vars

\* ------------------------------------------------------------ share_linkages
\* A storm-to-events table is kept as two columns of one record: the storm
\* objects, and their linkages.  pandas.DataFrame() has no rows.
EmptyDataFrame == [storm_object_table |-> <<>>, linkages |-> <<>>]

\* Dates whose new linkage file the loop iteration for date i writes before it
\* shares anything: the last two dates in the last iteration, the date before
\* i from the second iteration on.
DatesWritten(i, num_dates) ==
    IF i = num_dates THEN <<num_dates - 1, num_dates>>
    ELSE IF i >= 2 THEN <<i - 1>>
    ELSE <<>>

\* The date whose table the iteration for date i replaces by an empty
\* DataFrame: list index i - 2 counted from 0, which for the second iteration
\* is index -1, the last date.
DateCleared(i, num_dates) == IF i = 2 THEN num_dates ELSE i - 2

\* The tables by date after the iteration for date i < num_dates has written,
\* cleared and read: a date among i, i + 1 whose table is empty is read from
\* its old linkage file.
TablesRead(files, storm_to_events, tornado_to_storm, metadata, i) ==
    LET cleared == IF i >= 2
                   THEN [storm_to_events EXCEPT ![DateCleared(i, Len(files))] = EmptyDataFrame]
                   ELSE storm_to_events
        read(j) == j \in {i, i + 1} /\ cleared[j].storm_object_table = <<>>
    IN  [storm_to_events |-> [j \in DOMAIN files |-> IF read(j) THEN files[j][1]
                                                      ELSE cleared[j]],
         tornado_to_storm |-> [j \in DOMAIN files |-> IF read(j) THEN files[j][3]
                                                       ELSE tornado_to_storm[j]],
         metadata |-> IF read(i + 1) THEN files[i + 1][2]
                      ELSE IF read(i) THEN files[i][2] ELSE metadata]

\* The arguments that share_linkages takes from the metadata.
ArgsFromMetadata(metadata) ==
    [ProjectionArgs EXCEPT
        !.max_time_before_storm_start_sec = metadata[MAX_TIME_BEFORE_START_KEY],
        !.max_time_after_storm_end_sec = metadata[MAX_TIME_AFTER_END_KEY]]

\* The storm objects of one period in the tables that _share_tornado_linkages
\* returns: those of the concatenated table without duplicates, the column
\* with the early flag dropped.
SharedStormObjects(early_storms, late_storms, early) ==
    LET storm_table ==
            DropDuplicateObjects(
                [r \in DOMAIN early_storms |-> early_storms[r] @@ [early_flag |-> TRUE]]
                \o [r \in DOMAIN late_storms |-> late_storms[r] @@ [early_flag |-> FALSE]])
        kept == PickIndices(storm_table,
                            {r \in DOMAIN storm_table : storm_table[r].early_flag = early}, 1)
    IN  [r \in DOMAIN kept |->
            [c \in DOMAIN kept[r] \ {"early_flag"} |-> kept[r][c]]]

\* The tables by date after the call of _share_tornado_linkages for the dates
\* i and i + 1, given what the call returned.  The tornado tables are changed
\* in place, also by a call that raises.
TablesAfterTornadoStep(tables, i, result) ==
    [raised |-> result.raised,
     storm_to_events |->
         IF result.raised THEN tables.storm_to_events
         ELSE [tables.storm_to_events EXCEPT
                  ![i] = [storm_object_table |->
                              SharedStormObjects(tables.storm_to_events[i].storm_object_table,
                                                 tables.storm_to_events[i + 1].storm_object_table,
                                                 TRUE),
                          linkages |-> result.early_storm_to_tornadoes_table],
                  ![i + 1] = [storm_object_table |->
                                  SharedStormObjects(
                                      tables.storm_to_events[i].storm_object_table,
                                      tables.storm_to_events[i + 1].storm_object_table, FALSE),
                              linkages |-> result.late_storm_to_tornadoes_table]],
     tornado_to_storm |->
         [tables.tornado_to_storm EXCEPT ![i] = result.early_tornado_to_storm_table,
                                         ![i + 1] = result.late_tornado_to_storm_table],
     metadata |-> tables.metadata]

\* share_linkages, one loop iteration up to the call of
\* _share_linkages_with_predecessors: the tables by date.
TornadoStep(tables, i, type) ==
    IF type = TORNADO_EVENT_STRING
    THEN TablesAfterTornadoStep(
             tables, i,
             _share_tornado_linkages(tables.tornado_to_storm[i],
                                     tables.tornado_to_storm[i + 1],
                                     tables.storm_to_events[i].storm_object_table,
                                     tables.storm_to_events[i + 1].storm_object_table,
                                     ArgsFromMetadata(tables.metadata)))
    ELSE tables @@ [raised |-> FALSE]

\* ------------------------------------------------- stitching specification
\* The storm tracks of MaxSpcDates adjacent dates: those of the two periods,
\* then another storm at ObjectsPerCell times.
SpcDateStormTables(speed, with_other) ==
    LET periods == PeriodStormTables(speed, with_other)
        last_late == periods[LATE][Len(periods[LATE])].valid_time
    IN  periods \o
        <<[n \in 1..ObjectsPerCell |->
              StormObjectLatLng(2, last_late + n, 2, IF n = 1 THEN {} ELSE {2},
                                IF n = ObjectsPerCell THEN {} ELSE {2})]>>

\* Tracks of tornado 1: none, or two segments at successive times.
TornadoTracks ==
    {<<>>} \cup
    {TornadoTable(<<t, t + 1>>, longitude_deg) :
        t \in 1..(2 * ObjectsPerCell), longitude_deg \in TornadoLongitudes}

\* The track segments that _read_input_tornado_reports hands a date with the
\* given storm objects: those within the time windows of the first and the
\* last storm time.
TornadoTableOfDate(track, table) ==
    LET storm_times == {table[r].valid_time : r \in DOMAIN table}
    IN  SelectSeq(track, LAMBDA segment :
            /\ segment.unix_time_sec >= SetMin(storm_times) - DEFAULT_MAX_TIME_BEFORE_STORM_SEC
            /\ segment.unix_time_sec <= SetMax(storm_times) + DEFAULT_MAX_TIME_AFTER_STORM_SEC)

\* The wind observations linked on a date: none, or one at the last storm
\* time, linked to the storm object of that time.
WindToStormTables(table) ==
    {<<>>,
     <<[unix_time_sec |-> table[Len(table)].valid_time,
        nearest_secondary_id |-> table[Len(table)].secondary_id,
        nearest_storm_time |-> table[Len(table)].valid_time]>>}

\* The metadata that read_linkage_file returns: the defaults for the event
\* type, whatever the file holds.
DefaultMetadataDict(type) ==
    [k \in {MAX_TIME_BEFORE_START_KEY, MAX_TIME_AFTER_END_KEY, STORM_INTERP_TIME_KEY,
            BBOX_PADDING_KEY, MAX_LINK_DISTANCE_KEY} |->
        CASE k = MAX_TIME_BEFORE_START_KEY -> DEFAULT_MAX_TIME_BEFORE_STORM_SEC
          [] k = MAX_TIME_AFTER_END_KEY -> DEFAULT_MAX_TIME_AFTER_STORM_SEC
          [] k = STORM_INTERP_TIME_KEY -> IF type = TORNADO_EVENT_STRING THEN 1 ELSE 10
          [] k = BBOX_PADDING_KEY -> DEFAULT_BBOX_PADDING_METRES
          [] k = MAX_LINK_DISTANCE_KEY ->
                IF type = TORNADO_EVENT_STRING THEN DEFAULT_MAX_TORNADO_DISTANCE_METRES
                ELSE DEFAULT_MAX_WIND_DISTANCE_METRES]

\* The linkage file of one date as read_linkage_file returns it, holding the
\* tables that a run of link_storms_to_tornadoes made.
TornadoLinkageFile(run) ==
    <<[storm_object_table |-> run.storm_object_table,
       linkages |-> run.storm_to_tornadoes_table],
      DefaultMetadataDict(TORNADO_EVENT_STRING), run.tornado_to_storm_table>>

\* The linkage file of one date as read_linkage_file returns it, holding the
\* table that link_storms_to_winds made; the tornado-to-storm table is None.
WindLinkageFile(table, wind_to_storm, date) ==
    <<[storm_object_table |-> table,
       linkages |-> _reverse_wind_linkages(table, wind_to_storm, date)],
      DefaultMetadataDict(WIND_EVENT_STRING), <<>>>>

\* The old linkage files of the dates with the given storm objects.
OldTornadoLinkageFiles(tables, track) ==
    [date \in DOMAIN tables |->
        TornadoLinkageFile(link_storms_to_tornadoes(tables[date],
                                                    TornadoTableOfDate(track, tables[date]),
                                                    ProjectionArgs, date))]

OldWindLinkageFiles(tables) ==
    {[date \in DOMAIN tables |-> WindLinkageFile(tables[date], winds[date], date)] :
        winds \in {w \in [DOMAIN tables -> UNION {WindToStormTables(tables[d]) :
                                                     d \in DOMAIN tables}] :
                      \A d \in DOMAIN tables : w[d] \in WindToStormTables(tables[d])}}

\* share_linkages is called in a process that has imported the module, for
\* one to MaxSpcDates dates with a linkage file each.
StitchInit ==
    /\ num_spc_dates \in 1..MaxSpcDates
    /\ top_dir_names_equal \in BOOLEAN
    /\ event_type_string \in {WIND_EVENT_STRING, TORNADO_EVENT_STRING}
    /\ \E speed \in StormSpeeds, with_other \in BOOLEAN :
          \E tables \in {SubSeq(SpcDateStormTables(speed, with_other), 1, num_spc_dates)} :
              IF event_type_string = TORNADO_EVENT_STRING
              THEN \E track \in TornadoTracks :
                       old_linkage_files = OldTornadoLinkageFiles(tables, track)
              ELSE old_linkage_files \in OldWindLinkageFiles(tables)
    /\ new_linkage_files = [date \in 1..num_spc_dates |-> <<>>]
    /\ storm_to_events_table_by_date = [date \in 1..num_spc_dates |-> EmptyDataFrame]
    /\ tornado_to_storm_table_by_date = [date \in 1..num_spc_dates |-> <<>>]
    /\ read_metadata_dict = <<>>
    /\ sharing_steps_done = {}
    /\ stitch_i = 1
    /\ stitch_pc = "loop"
    /\ storm_object_table = <<>>
    /\ num_early_storm_objects = 0
    /\ event_to_storm_table = <<>>
    /\ storm_to_events_table = <<>>
    /\ linkage_columns = [wind |-> WIND_LINKAGE_COLUMNS, tornado |-> TORNADO_LINKAGE_COLUMNS]
    /\ reversed_periods = {}
    /\ num_share_calls = 0
    /\ share_raised = FALSE
    /\ MatcherIdle /\ RedundantIdle /\ LinkingIdle /\ InterpIdle /\ FileIdle /\ ProjectionIdle

\* write_linkage_file for each of the given dates, in order: the tables of the
\* date and the metadata as they are at the call, and the sharing steps that
\* have been done by then.
WriteLinkageFiles(files, dates) ==
    [date \in DOMAIN files |->
        files[date] \o
        [n \in 1..Cardinality({m \in DOMAIN dates : dates[m] = date}) |->
            [storm_to_events_table |-> storm_to_events_table_by_date[date],
             metadata_dict |-> read_metadata_dict,
             tornado_to_storm_table |-> tornado_to_storm_table_by_date[date],
             steps_done |-> sharing_steps_done]]]

\* share_linkages, one iteration of the loop over the dates up to the call of
\* _share_linkages_with_predecessors: the files it writes, the table it
\* clears, the files it reads, the call of _share_tornado_linkages for the
\* dates i and i + 1, and the two tables concatenated.  An exception ends
\* share_linkages.
ShareLinkagesIteration ==
    /\ stitch_pc = "loop"
    /\ num_spc_dates >= 2
    /\ new_linkage_files' =
          WriteLinkageFiles(new_linkage_files, DatesWritten(stitch_i, num_spc_dates))
    /\ IF stitch_i = num_spc_dates
       THEN /\ stitch_pc' = "returned"
            /\ UNCHANGED <<storm_to_events_table_by_date, tornado_to_storm_table_by_date,
                           read_metadata_dict, storm_object_table, num_early_storm_objects,
                           storm_to_events_table>>
       ELSE \E tables \in {TablesRead(old_linkage_files, storm_to_events_table_by_date,
                                       tornado_to_storm_table_by_date, read_metadata_dict,
                                       stitch_i)} :
            \E step \in {TornadoStep(tables, stitch_i, event_type_string)} :
            \E early \in {step.storm_to_events[stitch_i]},
               late \in {step.storm_to_events[stitch_i + 1]} :
              /\ storm_to_events_table_by_date' = step.storm_to_events
              /\ tornado_to_storm_table_by_date' = step.tornado_to_storm
              /\ read_metadata_dict' = step.metadata
              /\ IF step.raised
                 THEN /\ stitch_pc' = "_share_tornado_linkages raised"
                      /\ UNCHANGED <<storm_object_table, num_early_storm_objects,
                                     storm_to_events_table>>
                 ELSE /\ stitch_pc' = "_share_linkages_with_predecessors"
                      /\ storm_object_table' =
                            early.storm_object_table \o late.storm_object_table
                      /\ num_early_storm_objects' = Len(early.storm_object_table)
                      /\ storm_to_events_table' = early.linkages \o late.linkages
    /\ UNCHANGED <<num_spc_dates, top_dir_names_equal, old_linkage_files, sharing_steps_done,
                   stitch_i, event_type_string, event_to_storm_table, linkage_columns,
                   reversed_periods, num_share_calls, share_raised>>
    /\ UNCHANGED <<matcher_vars, redundant_vars, linking_vars, interp_vars, file_vars,
                   projection_vars>>

\* share_linkages, the rest of the iteration: the call of
\* _share_linkages_with_predecessors for the dates i and i + 1 in a process
\* that has made num_share_calls calls of it before, and the two tables it
\* returns.  list.remove raises ValueError if the column is not in the
\* module-level list.
ShareLinkagesOfDates ==
    /\ stitch_pc = "_share_linkages_with_predecessors"
    /\ num_share_calls' = num_share_calls + 1
    /\ \E key \in {IF event_type_string = TORNADO_EVENT_STRING THEN "tornado" ELSE "wind"} :
          IF MERGING_PRED_FLAG_COLUMN \in Range(linkage_columns[key])
          THEN \E shared \in {_share_linkages_with_predecessors(storm_to_events_table,
                                                                linkage_columns[key])} :
                 /\ storm_to_events_table' = shared
                 /\ linkage_columns' =
                       [linkage_columns EXCEPT ![key] = ListRemove(@, MERGING_PRED_FLAG_COLUMN)]
                 /\ share_raised' = FALSE
                 /\ storm_to_events_table_by_date' =
                       [storm_to_events_table_by_date EXCEPT
                           ![stitch_i].linkages =
                               SubSeq(shared, 1, num_early_storm_objects),
                           ![stitch_i + 1].linkages =
                               SubSeq(shared, num_early_storm_objects + 1, Len(shared))]
                 /\ sharing_steps_done' = sharing_steps_done \cup {stitch_i}
                 /\ stitch_i' = stitch_i + 1
                 /\ stitch_pc' = "loop"
          ELSE /\ share_raised' = TRUE
               /\ stitch_pc' = "_share_linkages_with_predecessors raised"
               /\ UNCHANGED <<storm_to_events_table, linkage_columns,
                              storm_to_events_table_by_date, sharing_steps_done, stitch_i>>
    /\ UNCHANGED <<num_spc_dates, top_dir_names_equal, old_linkage_files, new_linkage_files,
                   tornado_to_storm_table_by_date, read_metadata_dict, storm_object_table,
                   num_early_storm_objects, event_type_string, event_to_storm_table,
                   reversed_periods>>
    /\ UNCHANGED <<matcher_vars, redundant_vars, linking_vars, interp_vars, file_vars,
                   projection_vars>>

\* share_linkages for one date: nothing is shared; the old file is copied to
\* the new one unless the two directories are the same.
ShareLinkagesOneDate ==
    /\ stitch_pc = "loop"
    /\ num_spc_dates = 1
    /\ new_linkage_files' =
          IF top_dir_names_equal THEN new_linkage_files
          ELSE [new_linkage_files EXCEPT
                   ![1] = @ \o <<[storm_to_events_table |-> old_linkage_files[1][1],
                                  metadata_dict |-> old_linkage_files[1][2],
                                  tornado_to_storm_table |-> old_linkage_files[1][3],
                                  steps_done |-> sharing_steps_done]>>]
    /\ stitch_pc' = "returned"
    /\ UNCHANGED <<num_spc_dates, top_dir_names_equal, old_linkage_files,
                   storm_to_events_table_by_date, tornado_to_storm_table_by_date,
                   read_metadata_dict, sharing_steps_done, stitch_i>>
    /\ UNCHANGED not_stitch_vars

StitchNext ==
    \/ ShareLinkagesIteration
    \/ ShareLinkagesOfDates
    \/ ShareLinkagesOneDate

SpecStitch == StitchInit /\ [][StitchNext]_vars

\* Tornado track segments in _find_nearest_storms, loop iteration by loop
\* iteration, and in the runs of link_storms_to_tornadoes and
\* _share_tornado_linkages for two adjacent periods.
SpecTornadoSegments ==
    (TornadoLinkingInit \/ ProjectionInit) /\ [][LinkingNext \/ ProjectionNext]_vars

\* ---------------------------------------------------- projection properties
\* C20: every comparison of the planar coordinates of an event with those of
\* storm vertices, and every comparison of two linkage distances, made in
\* link_storms_to_tornadoes or in _share_tornado_linkages, is between values
\* derived from one and the same projection origin.
C20_OneProjectionOrigin ==
    \A c \in compared_origins : c.first = c.second

\* ---------------------------------------------------- lineage properties
\* Event identifiers in the lists of storm object i (row of the concatenated
\* table): the entries of a column that copies an event attribute.
EventsOn(i) == storm_to_events_table[i][LINKAGE_DISTANCES_COLUMN]

ListColumnsOn(i) == DOMAIN storm_to_events_table[i] \ {MERGING_PRED_FLAG_COLUMN}

\* The columns whose entries are copied from the event.
AttributeColumnsOn(i) ==
    ListColumnsOn(i) \ {RELATIVE_EVENT_TIMES_COLUMN, MAIN_OBJECT_FLAGS_COLUMN}

CountIn(list, x) == Cardinality({n \in DOMAIN list : list[n] = x})

\* Number of list entries over the storm objects in `rows`.
RECURSIVE TotalEntries(_)
TotalEntries(rows) ==
    IF rows = {} THEN 0
    ELSE LET i == CHOOSE y \in rows : TRUE
         IN  Len(storm_to_events_table[i][LINKAGE_DISTANCES_COLUMN]) + TotalEntries(rows \ {i})

LinkedEventIndices(p) ==
    {k \in DOMAIN event_to_storm_table[p] :
        event_to_storm_table[p][k].nearest_secondary_id # None}

\* Rows (of the period's own table) on which the reversal must list event k.
QualifyingRows(p, k) ==
    LET table == PeriodTable(p)
        event == event_to_storm_table[p][k]
    IN  {j \in _find_predecessors(table, MainObjectRow(table, event))[1] :
            ~(table[j].valid_time > event.unix_time_sec)}

ReversedOnly(p) == p \in reversed_periods /\ num_share_calls = 0

\* C1: for every storm graph (each period's table and the concatenation of
\* both) and every target storm object, the simple predecessors and the
\* merging predecessors returned by _find_predecessors have no row in common.
C1_PredecessorSetsDisjoint ==
    /\ \A r \in DOMAIN storm_object_table :
          LET preds == _find_predecessors(storm_object_table, r)
          IN  preds[1] \cap preds[2] = {}
    /\ \A p \in Periods : \A r \in DOMAIN PeriodTable(p) :
          LET preds == _find_predecessors(PeriodTable(p), r)
          IN  preds[1] \cap preds[2] = {}

\* A storm object that has both simple predecessors other than itself and
\* merging predecessors.
C1_Witness ==
    \E r \in DOMAIN storm_object_table :
        LET preds == _find_predecessors(storm_object_table, r)
        IN  preds[2] # {} /\ preds[1] \ {r} # {}

\* C5: after the reversal of a period, a linked event is listed on a storm
\* object exactly once if the object is a simple predecessor of the event's
\* main object (the main object included) and is not later than the event,
\* and not at all otherwise; every list column of an object has the same
\* length; the number of entries over all objects is the number of such
\* (object, event) pairs.
C5_ReversalListsExactlyQualifyingPredecessors ==
    \A p \in Periods : ReversedOnly(p) =>
        /\ \A j \in DOMAIN PeriodTable(p) : \A k \in DOMAIN event_to_storm_table[p] :
              CountIn(EventsOn(j + RowOffset(p)), <<p, k>>) =
                 (IF k \in LinkedEventIndices(p) /\ j \in QualifyingRows(p, k) THEN 1 ELSE 0)
        /\ \A i \in PeriodRows(p) : \A c \in ListColumnsOn(i) :
              Len(storm_to_events_table[i][c]) = Len(EventsOn(i))
        /\ TotalEntries(PeriodRows(p)) =
              Cardinality({<<j, k>> \in (DOMAIN PeriodTable(p)) \X LinkedEventIndices(p) :
                              j \in QualifyingRows(p, k)})

\* A reversed period with a linked event that is listed on a predecessor other
\* than its main object, is skipped on a simple predecessor later than the
\* event, and has a merging predecessor.
C5_Witness ==
    \E p \in Periods : ReversedOnly(p) /\
        \E k \in LinkedEventIndices(p) :
            LET table == PeriodTable(p)
                main == MainObjectRow(table, event_to_storm_table[p][k])
                preds == _find_predecessors(table, main)
            IN  /\ QualifyingRows(p, k) \ {main} # {}
                /\ preds[1] \ QualifyingRows(p, k) # {}

\* C6: after the reversal of a period, every linked event has exactly one list
\* entry whose main-object flag is True, and that entry is on the storm object
\* of the event's secondary ID nearest in time to its nearest-storm time.
C6_ExactlyOneMainObjectEntry ==
    \A p \in Periods : ReversedOnly(p) =>
        \A k \in LinkedEventIndices(p) :
            LET main == MainObjectRow(PeriodTable(p), event_to_storm_table[p][k])
                            + RowOffset(p)
                flagged == {<<i, n>> \in PeriodRows(p) \X (1..MaxEvents) :
                               /\ n \in DOMAIN EventsOn(i)
                               /\ EventsOn(i)[n] = <<p, k>>
                               /\ storm_to_events_table[i][MAIN_OBJECT_FLAGS_COLUMN][n]}
            IN  Cardinality(flagged) = 1 /\ \A f \in flagged : f[1] = main

\* C7: after the reversal of a period, the merging-predecessor flag of a storm
\* object is True exactly if the object is a merging predecessor of the main
\* object of some linked event, and no merging predecessor of an event's main
\* object has a list entry for that event.
C7_MergingPredecessorsFlaggedOnly ==
    \A p \in Periods : ReversedOnly(p) =>
        LET table == PeriodTable(p)
            merging(k) ==
                _find_predecessors(table, MainObjectRow(table, event_to_storm_table[p][k]))[2]
        IN  /\ \A j \in DOMAIN table :
                  storm_to_events_table[j + RowOffset(p)][MERGING_PRED_FLAG_COLUMN]
                     <=> \E k \in LinkedEventIndices(p) : j \in merging(k)
            /\ \A k \in LinkedEventIndices(p) : \A j \in merging(k) :
                  \A c \in AttributeColumnsOn(j + RowOffset(p)) :
                      <<p, k>> \notin Range(storm_to_events_table[j + RowOffset(p)][c])

\* A reversed period in which some storm object is flagged as a merging
\* predecessor of one event and lists another event.
C7_Witness ==
    \E p \in Periods : ReversedOnly(p) /\
        \E i \in PeriodRows(p) :
            /\ storm_to_events_table[i][MERGING_PRED_FLAG_COLUMN]
            /\ EventsOn(i) # <<>>

\* Late-period main objects with the events they are the main object of, and
\* their early-period merging predecessors in the concatenated table.
LateMainEntries ==
    {<<i, n>> \in PeriodRows(LATE) \X (1..MaxEvents) :
        /\ n \in DOMAIN EventsOn(i)
        /\ EventsOn(i)[n][1] = LATE
        /\ storm_to_events_table[i][MAIN_OBJECT_FLAGS_COLUMN][n]}

EarlyMergingPredecessors(i) ==
    _find_predecessors(storm_object_table, i)[2] \cap PeriodRows(EARLY)

\* C8 as stated: after _share_linkages_with_predecessors, the events of a late
\* main object are listed on its merging predecessors in the early period.
C8_SharedOntoMergingPredecessors ==
    num_share_calls = 1 =>
        \A f \in LateMainEntries : \A j \in EarlyMergingPredecessors(f[1]) :
            EventsOn(f[1])[f[2]] \in Range(EventsOn(j))

\* C8 amended: after _share_linkages_with_predecessors, no early-period merging
\* predecessor of a late main object has an entry, in any attribute column, for an
\* event of that main object.
C8_NotSharedOntoMergingPredecessors ==
    num_share_calls = 1 =>
        \A f \in LateMainEntries : \A j \in EarlyMergingPredecessors(f[1]) :
            \A c \in AttributeColumnsOn(j) :
                EventsOn(f[1])[f[2]] \notin Range(storm_to_events_table[j][c])

\* After sharing: a late main object with an event and with a merging
\* predecessor in the early period, and an early simple predecessor that did
\* receive the event.
C8_Witness ==
    /\ num_share_calls = 1
    /\ \E f \in LateMainEntries :
          /\ EarlyMergingPredecessors(f[1]) # {}
          /\ \E j \in PeriodRows(EARLY) : EventsOn(f[1])[f[2]] \in Range(EventsOn(j))

\* The storm-to-events table as the reversal of both periods leaves it, which
\* is the table _share_linkages_with_predecessors is called with.
ReversedLinkages(p) ==
    IF event_type_string = WIND_EVENT_STRING
    THEN _reverse_wind_linkages(PeriodTable(p), event_to_storm_table[p], p)
    ELSE _reverse_tornado_linkages(PeriodTable(p), event_to_storm_table[p], p)

TableBeforeSharing ==
    [i \in DOMAIN storm_object_table |->
        LET p == IF i \in PeriodRows(EARLY) THEN EARLY ELSE LATE
        IN  ReversedLinkages(p)[i - RowOffset(p)]]

\* Simple predecessors of row i in the concatenated table, i itself left out.
OtherSimplePredecessors(i) == _find_predecessors(storm_object_table, i)[1] \ {i}

\* Entry m of storm object j is a copy of entry n of storm object i, not a
\* main-object entry, with the relative time moved to the valid time of j.
IsSharedCopy(j, m, i, n) ==
    /\ m \in DOMAIN EventsOn(j)
    /\ \A c \in AttributeColumnsOn(j) :
          storm_to_events_table[j][c][m] = storm_to_events_table[i][c][n]
    /\ storm_to_events_table[j][MAIN_OBJECT_FLAGS_COLUMN][m] = FALSE
    /\ storm_to_events_table[j][RELATIVE_EVENT_TIMES_COLUMN][m] =
          (storm_object_table[i].valid_time
              + storm_to_events_table[i][RELATIVE_EVENT_TIMES_COLUMN][n])
          - storm_object_table[j].valid_time

C19_LateTableUnchanged ==
    num_share_calls = 1 =>
        \A i \in PeriodRows(LATE) : storm_to_events_table[i] = TableBeforeSharing[i]

\* C30: _share_linkages_with_predecessors leaves the module-level lists
\* TORNADO_LINKAGE_COLUMNS and WIND_LINKAGE_COLUMNS as they were, and a second
\* call in the same process does not raise.
C30_ColumnListsUnchanged ==
    num_share_calls > 0 =>
        /\ linkage_columns = [wind |-> WIND_LINKAGE_COLUMNS,
                              tornado |-> TORNADO_LINKAGE_COLUMNS]
        /\ ~share_raised

\* The event behind entry n of the lists of storm object i.
EventOf(i, n) == event_to_storm_table[EventsOn(i)[n][1]][EventsOn(i)[n][2]]

\* C28: after the reversal and after any number of calls of
\* _share_linkages_with_predecessors, every relative event time listed on a
\* storm object is the time of the event minus the valid time of the storm
\* object, and is not negative.
C28_RelativeTimesFromValidTime ==
    \A i \in DOMAIN storm_to_events_table :
        storm_to_events_table[i] # <<>> =>
            \A n \in DOMAIN EventsOn(i) :
                /\ storm_to_events_table[i][RELATIVE_EVENT_TIMES_COLUMN][n] =
                      EventOf(i, n).unix_time_sec - storm_object_table[i].valid_time
                /\ storm_to_events_table[i][RELATIVE_EVENT_TIMES_COLUMN][n] >= 0

\* After sharing: an event of a late main object is listed on a simple
\* predecessor in the early period with a larger relative time, and the
\* reversal has skipped a storm object that is later than a linked event.
C28_Witness ==
    /\ num_share_calls = 1
    /\ \E f \in LateMainEntries :
          \E j \in OtherSimplePredecessors(f[1]) \cap PeriodRows(EARLY) :
              \E m \in DOMAIN EventsOn(j) :
                  /\ EventsOn(j)[m] = EventsOn(f[1])[f[2]]
                  /\ storm_to_events_table[j][RELATIVE_EVENT_TIMES_COLUMN][m] >
                        storm_to_events_table[f[1]][RELATIVE_EVENT_TIMES_COLUMN][f[2]]
    /\ \E p \in Periods : \E k \in LinkedEventIndices(p) :
          \E j \in _find_predecessors(PeriodTable(p),
                                      MainObjectRow(PeriodTable(p),
                                                    event_to_storm_table[p][k]))[1] :
              PeriodTable(p)[j].valid_time > event_to_storm_table[p][k].unix_time_sec

\* C29: after the reversal of both periods and the sharing step, no storm
\* object lists the same event more than once.
C29_NoEventListedTwice ==
    num_share_calls >= 1 =>
        \A i \in DOMAIN storm_to_events_table :
            \A m, n \in DOMAIN EventsOn(i) : EventsOn(i)[m] = EventsOn(i)[n] => m = n

\* ------------------------------------------------ track-segment properties
\* The linkage of a track segment: secondary ID, nearest storm time, distance.
LinkageOf(row) == <<row.nearest_secondary_id, row.nearest_storm_time, row.linkage_distance>>

\* Row `after` is row `before` of a later table with its linkage, if it had
\* one, and its assigned flag, if it was True.
RowKept(before, after) ==
    /\ before.nearest_secondary_id # None => LinkageOf(after) = LinkageOf(before)
    /\ before.tornado_assigned_flag => after.tornado_assigned_flag

\* Every call made by the latest loop iteration of _find_nearest_storms.
CallsKeepLinkages ==
    \A n \in DOMAIN linking_calls :
        \A k \in DOMAIN linking_calls[n].before :
            RowKept(linking_calls[n].before[k], linking_calls[n].after[k])

\* One loop iteration of _find_nearest_storms as a whole.
IterationKeepsLinkages ==
    \A k \in DOMAIN event_table :
        k \in DOMAIN event_table' /\ RowKept(event_table[k], event_table'[k])

\* The tornado table of period p as _share_tornado_linkages found it and as it
\* left it.
TornadoTableShared(p) ==
    IF p = EARLY THEN shared_tables[1].early_tornado_to_storm_table
    ELSE shared_tables[1].late_tornado_to_storm_table

\* _share_tornado_linkages as a whole, on the track segments it does not drop.
SharingKeepsLinkages ==
    shared_tables # <<>> =>
        \A p \in Periods :
            LET before == linkage_runs[p][1].tornado_to_storm_table
                after == TornadoTableShared(p)
            IN  \A k \in DOMAIN before : \A m \in DOMAIN after :
                    (/\ before[k].tornado_id = after[m].tornado_id
                     /\ before[k].unix_time_sec = after[m].unix_time_sec)
                    => RowKept(before[k], after[m])

\* C26: in both loops of _find_nearest_storms and in _share_tornado_linkages,
\* a track segment that has a secondary ID keeps its secondary ID, its nearest
\* storm time and its linkage distance in every later step, and an assigned
\* flag that is True stays True.
C26_LinkagesWrittenOnce ==
    [][IterationKeepsLinkages /\ CallsKeepLinkages' /\ SharingKeepsLinkages']_vars

\* A call of _finish_tornado_linkage or _link_tornado_to_new_storm that links
\* a track segment of a tornado of which another segment was linked before.
C26_Witness ==
    \E n \in DOMAIN linking_calls :
        \E k, m \in DOMAIN linking_calls[n].before :
            /\ linking_calls[n].before[k].tornado_id = linking_calls[n].before[m].tornado_id
            /\ linking_calls[n].before[k].nearest_secondary_id # None
            /\ linking_calls[n].before[m].nearest_secondary_id = None
            /\ linking_calls[n].after[m].nearest_secondary_id # None

\* In a table of track segments, the rows of one tornado have the same
\* assigned flag, and a tornado whose flag is True has a linked segment.
FlagsSound(table) ==
    \A k \in DOMAIN table :
        /\ \A m \in DOMAIN table :
              table[m].tornado_id = table[k].tornado_id
              => table[m].tornado_assigned_flag = table[k].tornado_assigned_flag
        /\ table[k].tornado_assigned_flag =>
              \E m \in DOMAIN table :
                  /\ table[m].tornado_id = table[k].tornado_id
                  /\ table[m].nearest_secondary_id # None

\* _share_tornado_linkages raised in _remove_redundant_tornado_linkages.
RemovalRaisedInSharing ==
    _remove_redundant_tornado_linkages(linkage_runs[EARLY][1].tornado_to_storm_table,
                                       linkage_runs[LATE][1].tornado_to_storm_table).raised

\* C27: at every point of _find_nearest_storms and _share_tornado_linkages the
\* rows of one tornado have the same assigned flag and a tornado whose flag is
\* True has a linked segment, so that no call of _link_tornado_to_new_storm
\* finds a tornado without a linked segment (and raises).
C27_AssignedTornadoHasLinkedSegment ==
    /\ FlagsSound(event_table)
    /\ linking_pc # "raised"
    /\ \A n \in DOMAIN linking_calls :
          /\ FlagsSound(linking_calls[n].before)
          /\ FlagsSound(linking_calls[n].after)
          /\ linking_calls[n].function = "_link_tornado_to_new_storm"
                => ~linking_calls[n].raised
    /\ \A p \in DOMAIN linkage_runs : \A n \in DOMAIN linkage_runs[p] :
          /\ ~linkage_runs[p][n].raised
          /\ FlagsSound(linkage_runs[p][n].tornado_to_storm_table)
    /\ shared_tables # <<>> =>
          /\ FlagsSound(shared_tables[1].early_tornado_to_storm_table)
          /\ FlagsSound(shared_tables[1].late_tornado_to_storm_table)
          /\ shared_tables[1].raised => RemovalRaisedInSharing

\* A call of _link_tornado_to_new_storm for an unlinked segment of a tornado
\* that has the assigned flag, after which the segment is still unlinked.
C27_Witness ==
    \E n \in DOMAIN linking_calls :
        /\ linking_calls[n].function = "_link_tornado_to_new_storm"
        /\ linking_calls[n].before[linking_calls[n].tornado_row].tornado_assigned_flag
        /\ linking_calls[n].after[linking_calls[n].tornado_row].nearest_secondary_id = None
\* ------------------------------------------------------ stitching properties
\* The sharing steps that involve date k: those with the date before it and
\* with the date after it.
AdjacentSteps(k, num_dates) == {k - 1, k} \cap (1..(num_dates - 1))

\* share_linkages has ended other than by input that
\* _share_tornado_linkages refuses.
ShareLinkagesEnded ==
    stitch_pc \in {"returned", "_share_linkages_with_predecessors raised"}

\* C25: when share_linkages over two or more dates has ended, the output file
\* of every date was written exactly once, after the sharing steps with both
\* adjacent dates, and it holds the tables as these steps left them.
C25_EveryDateWrittenOnceAfterSharing ==
    (num_spc_dates >= 2 /\ ShareLinkagesEnded) =>
        \A k \in 1..num_spc_dates :
            /\ Len(new_linkage_files[k]) = 1
            /\ AdjacentSteps(k, num_spc_dates) \subseteq new_linkage_files[k][1].steps_done
            /\ new_linkage_files[k][1].storm_to_events_table = storm_to_events_table_by_date[k]

====
